---- MODULE Spec2Model ----
(***************************************************************************)
(* generator-utils: lazy sequence combinators over the iterator protocol.  *)
(*                                                                         *)
(* The model follows the TypeScript source of the library (the generator   *)
(* functions combine, concat, ..., take, toArray and the copy wrapper).    *)
(* JavaScript runs one call at a time, so a call in progress is a position *)
(* of the single thread of control; a loop of the source is modelled one   *)
(* iteration per step so that a loop that never exits is visible.          *)
(*                                                                         *)
(* Specifications:                                                         *)
(*   SpecCopy     several iterations of one copy(iterable)                 *)
(*   SpecCopyReturn                                                        *)
(*                SpecCopy over generators that return a value             *)
(*   SpecCombine  a consumer pulling combine(iterables)                    *)
(*   SpecConcat   a consumer pulling concat(iterables)                     *)
(*   SpecFilter, SpecFilterMap, SpecMap, SpecFlatten                       *)
(*                a consumer pulling the generator of that name            *)
(*   SpecTake     one call of take(iterable, count)                        *)
(*   SpecRange, SpecFromArray                                              *)
(*                a consumer pulling range(min, max), fromArray(array)     *)
(*   SpecForEach  forEach(s, callback) and toArray(t) on equal sequences   *)
(*   SpecPipeline a consumer builds a pipeline of the functions over       *)
(*                finite inputs and drains it                              *)
(*   SpecThrow    filter, filterMap, map and forEach with a function that  *)
(*                raises an error                                          *)
(*   SpecLibFilterMap, SpecLibCombine                                      *)
(*                the next()-based filterMap and two-generator combine of  *)
(*                lib/index.js                                             *)
(***************************************************************************)
EXTENDS Integers, Sequences, FiniteSets, TLC

(***************************************************************************)
(* Bounds of the model.                                                    *)
(***************************************************************************)
\* longest finite input sequence
MaxLen == 2
\* number of iterations started on one copy(iterable)
MaxIters == 2
\* next() calls one consumer makes on one iterator
MaxCalls == 4
\* number of sequences given to combine
MaxSeqs == 3
\* next() calls the consumer of a combine makes
MaxNext == 9
\* the natural number at which naturalNumbers' value++ stops growing
\* (2^53 in IEEE doubles, scaled down)
NatSat == 12
\* largest count given to take
MaxCount == 3
\* number of take calls made on one iterable
MaxTakes == 2
\* largest bound given to range
MaxRange == 3
\* number of next() calls a consumer makes after it was told done
MaxAfter == 2

\* element values of the finite input sequences
Vals == {0, 1}

(***************************************************************************)
(* JavaScript values.                                                      *)
(***************************************************************************)
\* `undefined`: the value of a generator's done result, of a read past the
\* end of an array (valueArray[0] of an empty array)
Undefined == -1
\* `let maxIndex = Infinity`: larger than every index
Infinity == 1000000

Min(a, b) == IF a < b THEN a ELSE b

(***************************************************************************)
(* Input sequences: generator objects.  An "array" generator is            *)
(* fromArray(items) (range(min, max) is the case items = min..max); a      *)
(* "naturals" generator is the tests' naturalNumbers().  ret is the value  *)
(* the generator function returns, which its first done result carries.    *)
(***************************************************************************)
Arrays == UNION {[1..n -> Vals] : n \in 0..MaxLen}

fromArray(array) == [kind |-> "array", items |-> array, ret |-> Undefined]

\* range(min, max): for (let i = min; i <= max; i++) yield i
range(min, max) ==
  fromArray([k \in 1..(IF min <= max THEN max - min + 1 ELSE 0) |-> min + k - 1])

naturalNumbers == [kind |-> "naturals", items |-> <<>>, ret |-> Undefined]

\* the state of a generator object that has not been started
NewGen == [pos |-> 0, closed |-> FALSE]

\* generator.next(): the iteration result and the generator's next state
GenNext(g, st) ==
  IF st.closed
  THEN [result |-> [done |-> TRUE, value |-> Undefined], state |-> st]
  ELSE IF g.kind = "naturals"
  THEN [result |-> [done |-> FALSE, value |-> st.pos],
        state  |-> [st EXCEPT !.pos = Min(st.pos + 1, NatSat)]]
  ELSE IF st.pos < Len(g.items)
  THEN [result |-> [done |-> FALSE, value |-> g.items[st.pos + 1]],
        state  |-> [st EXCEPT !.pos = st.pos + 1]]
  ELSE [result |-> [done |-> TRUE, value |-> g.ret],
        state  |-> [st EXCEPT !.closed = TRUE]]

\* generator.return(), which a for-of calls when its body is left by an
\* error: the generator is finished
GenReturn(st) == [st EXCEPT !.closed = TRUE]

\* one more next() call on an input generator; like the naturals, the count
\* stops growing at NatSat
countPull(n) == Min(n + 1, NatSat)

\* whether the sequence ends
IsFinite(g) == g.kind = "array"

(***************************************************************************)
(* take(iterable, 1) given the result of its one iterator.next() call:     *)
(* the array it returns.                                                   *)
(***************************************************************************)
take1(iteration) ==
  IF iteration.done
  THEN IF iteration.value # Undefined THEN <<iteration.value>> ELSE <<>>
  ELSE <<iteration.value>>

(***************************************************************************)
(* copy(iterable): the closure state {values, indexes, done, maxIndex}.    *)
(* iterators[id] is determined by id, so Len(indexes) stands for           *)
(* iterators.length.  Array offsets are 0-based in the source and 1-based  *)
(* here: values[index] of the source is values[index + 1].                 *)
(***************************************************************************)
NewCopy == [values |-> <<>>, indexes |-> <<>>, done |-> FALSE,
            maxIndex |-> Infinity]

\* [Symbol.iterator](): indexes[id] = 0 for id = iterators.length
StartIndex == 0

\* a changed copyIterator: the new iteration starts where the buffer ends
copyIteratorAtEnd(c) == [c EXCEPT !.indexes = Append(@, Len(c.values))]

copyIterator(c) == [c EXCEPT !.indexes = Append(@, StartIndex)]

\* a changed loopCondition: one position is fetched ahead
loopConditionAhead(c, index) == Len(c.values) <= index + 1 /\ ~c.done

\* while (values.length <= index)
loopCondition(c, index) == Len(c.values) <= index

\* a changed cacheTaken: the value is put in front of the buffer
cacheTakenUnshift(c, valueArray) ==
  IF Len(valueArray) = 0
  THEN [c EXCEPT !.done = TRUE,
                 !.maxIndex = Len(c.values) - 1,
                 !.values = Append(@, Undefined)]
  ELSE [c EXCEPT !.values = <<valueArray[1]>> \o @]

\* a changed cacheTaken: exhaustion is cached but the done flag is not set
cacheTakenNoFlag(c, valueArray) ==
  IF Len(valueArray) = 0
  THEN [c EXCEPT !.maxIndex = Len(c.values) - 1,
                 !.values = Append(@, Undefined)]
  ELSE [c EXCEPT !.values = Append(@, valueArray[1])]

\* the loop body after `const valueArray = take(iterable, 1)`
cacheTaken(c, valueArray) ==
  IF Len(valueArray) = 0
  THEN [c EXCEPT !.done = TRUE,
                 !.maxIndex = Len(c.values) - 1,
                 !.values = Append(@, Undefined)]
  ELSE [c EXCEPT !.values = Append(@, valueArray[1])]

\* a changed iteratorResult: the last cached value is taken for the end
iteratorResultOffByOne(c, index) ==
  [done |-> index >= c.maxIndex, value |-> c.values[index + 1]]

\* return {done: index > maxIndex, value: values[index]}
iteratorResult(c, index) ==
  [done |-> index > c.maxIndex, value |-> c.values[index + 1]]

(***************************************************************************)
(* State.                                                                  *)
(***************************************************************************)
VARIABLES
  iterables,  \* the input generators (their descriptions)
  gens,       \* the state of each input generator
  pulls,      \* number of next() calls made on each input generator
  copies,     \* the copy(...) closures
  active,     \* SpecCopy: id (1-based) of the iterator whose next() runs, 0 if none
  index,      \* SpecCopy: the index argument of getIteratorResultAtIndex
  got,        \* SpecCopy: per iterator, the values its next() calls returned
              \* SpecTake: per take call that has returned, its record
  dones,      \* SpecCopy: per iterator, how many done results it returned
  depth,      \* the generator whose code runs (0: the consumer's code runs)
  frames,     \* per generator function called, where it stands and its locals
  out,        \* the values the consumer's next() calls returned
  outDone,    \* the number of done results the consumer received
  calls,      \* the arguments the caller's function (predicate, transform,
              \* callback) has been called with, in order
  raised      \* the elements at which the caller's function raised an error
              \* that reached the consumer

vars == <<iterables, gens, pulls, copies, active, index, got, dones,
          depth, frames, out, outDone, calls, raised>>

\* what the generator functions without a copy, and without a function
\* argument, leave alone
copyVars == <<active, index, got, dones, calls, raised>>
\* what the iterators of a copy(iterable) held by the consumer leave alone
combineVars == <<depth, frames, calls, raised>>

(***************************************************************************)
(* SpecCopy: a consumer holds c = copy(iterables[0]), starts iterations    *)
(* with c[Symbol.iterator]() and calls next() on them in any order.        *)
(***************************************************************************)
CopyInputs == {fromArray(a) : a \in Arrays} \cup {naturalNumbers}

InitCopy ==
  /\ iterables \in {<<g>> : g \in CopyInputs}
  /\ gens = <<NewGen>>
  /\ pulls = <<0>>
  /\ copies = <<NewCopy>>
  /\ active = 0
  /\ index = 0
  /\ got = <<>>
  /\ dones = <<>>
  /\ calls = <<>>
  /\ raised = <<>>
  /\ depth = 0
  /\ frames = <<>>
  /\ out = <<>>
  /\ outDone = 0

\* c[Symbol.iterator]()
CopyIterator ==
  /\ active = 0
  /\ Len(copies[1].indexes) < MaxIters
  /\ copies' = [copies EXCEPT ![1] = copyIterator(@)]
  /\ got' = Append(got, <<>>)
  /\ dones' = Append(dones, 0)
  /\ UNCHANGED <<iterables, gens, pulls, active, index, combineVars, out, outDone>>

\* iterators[id].next(): getIteratorResultAtIndex(indexes[id]++) is entered
CopyNextCall(id) ==
  /\ active = 0
  /\ copies[1].indexes[id] < MaxCalls
  /\ active' = id
  /\ index' = copies[1].indexes[id]
  /\ copies' = [copies EXCEPT ![1].indexes[id] = @ + 1]
  /\ UNCHANGED <<iterables, gens, pulls, got, dones, combineVars, out, outDone>>

\* one iteration of the while loop with !done: take(iterable, 1) and cache
CopyLoopTake ==
  /\ active # 0
  /\ loopCondition(copies[1], index)
  /\ ~copies[1].done
  /\ LET it == GenNext(iterables[1], gens[1]) IN
       /\ gens' = [gens EXCEPT ![1] = it.state]
       /\ pulls' = [pulls EXCEPT ![1] = countPull(@)]
       /\ copies' = [copies EXCEPT ![1] = cacheTaken(@, take1(it.result))]
  /\ UNCHANGED <<iterables, active, index, got, dones, combineVars, out, outDone>>

\* one iteration of the while loop with done: the body does nothing
CopyLoopSkip ==
  /\ active # 0
  /\ loopCondition(copies[1], index)
  /\ copies[1].done
  /\ UNCHANGED vars

\* the loop has exited: next() returns the iterator result
CopyNextReturn ==
  /\ active # 0
  /\ ~loopCondition(copies[1], index)
  /\ LET r == iteratorResult(copies[1], index) IN
       IF r.done
       THEN /\ dones' = [dones EXCEPT ![active] = @ + 1]
            /\ got' = got
       ELSE /\ got' = [got EXCEPT ![active] = Append(@, r.value)]
            /\ dones' = dones
  /\ active' = 0
  /\ UNCHANGED <<iterables, gens, pulls, copies, index, combineVars, out, outDone>>

NextCopy ==
  \/ CopyIterator
  \/ \E id \in 1..MaxIters : id <= Len(copies[1].indexes) /\ CopyNextCall(id)
  \/ CopyLoopTake
  \/ CopyLoopSkip
  \/ CopyNextReturn

SpecCopy == InitCopy /\ [][NextCopy]_vars

(***************************************************************************)
(* Properties of copy.                                                     *)
(***************************************************************************)
\* the k-th element (k = 1, 2, ...) of an input sequence
ElementAt(g, k) == IF g.kind = "naturals" THEN k - 1 ELSE g.items[k]

\* the next() call in progress can leave the while loop: the loop condition
\* is false, or the loop body still changes the buffer
CopyCallProgresses == ~(loopCondition(copies[1], index) /\ copies[1].done)

\* C1: every iteration of copy(s) yields the elements of s in order and then
\* done, whatever the number of iterations and the interleaving of their
\* next() calls; the position of an iteration is the number of next() calls
\* made on that iteration alone, starting at 0.
C1_CopyReplaysIndependently ==
  \A id \in 1..Len(got) :
    /\ \A k \in 1..Len(got[id]) : got[id][k] = ElementAt(iterables[1], k)
    /\ IsFinite(iterables[1]) => Len(got[id]) <= Len(iterables[1].items)
    /\ dones[id] >= 1 =>
         IsFinite(iterables[1]) /\ got[id] = iterables[1].items
    /\ (active = id /\ dones[id] = 0) => CopyCallProgresses
    /\ copies[1].indexes[id] =
         Len(got[id]) + dones[id] + (IF active = id THEN 1 ELSE 0)

\* C1 witness: the second iteration has run to its end, started from position
\* 0, while the first one stands after its first element
C1_Witness ==
  /\ Len(got) = 2
  /\ Len(iterables[1].items) = 2
  /\ dones[2] = 1 /\ got[2] = iterables[1].items
  /\ dones[1] = 0 /\ Len(got[1]) = 1
  /\ active = 0

\* a next() call is reading a position that is already in the buffer
CachedRead == active # 0 /\ index < Len(copies[1].values)

\* C2: the underlying sequence is pulled once per buffer position: never
\* for more than its n elements and its one done signal, not when the
\* position read is already cached, and not after exhaustion was recorded.
C2_UnderlyingPulledOnce ==
  /\ [](pulls[1] = Len(copies[1].values))
  /\ [](IsFinite(iterables[1]) =>
          /\ pulls[1] <= Len(iterables[1].items) + 1
          /\ Len(copies[1].values) - (IF copies[1].done THEN 1 ELSE 0)
               <= Len(iterables[1].items))
  /\ [][(CachedRead \/ copies[1].done) => pulls' = pulls]_vars

\* C2 witness: two iterations of a copy of a two-element sequence have both
\* ended, and the sequence was asked three times (two elements, one done)
C2_Witness ==
  /\ Len(got) = 2
  /\ Len(iterables[1].items) = 2
  /\ dones[1] >= 1 /\ dones[2] >= 1
  /\ pulls[1] = 3

\* C3: once an iterator of copy(s) has returned done, a further next() on
\* it returns, signalling done again (no further value), without pulling the
\* underlying sequence; so such a call is never caught in the while loop.
C3_ExhaustedNextReturnsDone ==
  \A id \in 1..Len(got) :
    dones[id] >= 1 =>
      /\ got[id] = iterables[1].items
      /\ active = id => CopyCallProgresses

\* the number of positions the most advanced iteration has requested (its
\* highest requested position plus one), 0 when nothing was requested
HighestRequested ==
  IF copies[1].indexes = <<>> THEN 0
  ELSE CHOOSE m \in 0..MaxCalls + 1 :
         /\ \E id \in 1..Len(copies[1].indexes) : copies[1].indexes[id] = m
         /\ \A id \in 1..Len(copies[1].indexes) : copies[1].indexes[id] <= m

\* C29: the buffer never holds more entries, and the underlying sequence is
\* never pulled more often, than the highest position requested by any
\* iteration so far plus one; on an infinite sequence the pulls made when
\* no call is running are exactly that number, so a single iteration that
\* has made k calls (take(copy(s), k)) has pulled s exactly k times.
C29_CopyPullsOnDemand ==
  /\ Len(copies[1].values) <= HighestRequested
  /\ pulls[1] <= HighestRequested
  /\ (~IsFinite(iterables[1]) /\ active = 0) => pulls[1] = HighestRequested

\* C29 witness: one iteration of a copy of the natural numbers has made
\* three calls, a second one a single call
C29_Witness ==
  /\ ~IsFinite(iterables[1])
  /\ active = 0
  /\ copies[1].indexes = <<3, 1>>
  /\ got = <<(<<0, 1, 2>>), (<<0>>)>>
  /\ pulls[1] = 3

\* the buffer positions that hold a value taken from the underlying
\* sequence (the entry pushed at its end holds undefined)
CachedCount(c) == Min(Len(c.values), c.maxIndex + 1)

\* the cached values are the first elements of the underlying sequence
CachedIsPrefix ==
  LET n == CachedCount(copies[1]) IN
    /\ n = Min(gens[1].pos, Len(copies[1].values))
    /\ IsFinite(iterables[1]) => n <= Len(iterables[1].items)
    /\ \A k \in 1..n : copies[1].values[k] = ElementAt(iterables[1], k)

\* a step leaves every entry of the buffer as it is and adds at most one
\* entry at its end
BufferAppendOnly ==
  LET old == copies[1].values
      new == copies'[1].values IN
    /\ Len(old) <= Len(new) /\ Len(new) <= Len(old) + 1
    /\ SubSeq(new, 1, Len(old)) = old

\* C36: the buffer of copy only grows at its end: no next() call of any
\* iteration changes or removes an entry, and the entries that hold values
\* are at all times the first elements of the underlying sequence, in its
\* order.
C36_BufferAppendOnly == []CachedIsPrefix /\ [][BufferAppendOnly]_vars

\* C36 witness: one iteration has read 0 and 1 into the buffer, a second
\* one has read position 0 from it, and the buffer holds 0, 1
C36_Witness ==
  /\ iterables[1] = fromArray(<<0, 1>>)
  /\ copies[1].values = <<0, 1>>
  /\ got = <<(<<0, 1>>), (<<0>>)>>
  /\ active = 0

(***************************************************************************)
(* SpecCopyReturn: SpecCopy over generators whose done result may carry a  *)
(* value (function* () { yield* array; return ret }).                      *)
(***************************************************************************)
\* what a generator function returns: nothing, or a value
Returns == {Undefined, 2}

\* generators whose done result may carry a value:
\* function* () { yield* array; return ret }
TakeInputs ==
  {[fromArray(a) EXCEPT !.ret = r] : a \in Arrays, r \in Returns}
    \cup {naturalNumbers}

InitCopyReturn ==
  /\ iterables \in {<<g>> : g \in TakeInputs}
  /\ gens = <<NewGen>>
  /\ pulls = <<0>>
  /\ copies = <<NewCopy>>
  /\ active = 0
  /\ index = 0
  /\ got = <<>>
  /\ dones = <<>>
  /\ calls = <<>>
  /\ raised = <<>>
  /\ depth = 0
  /\ frames = <<>>
  /\ out = <<>>
  /\ outDone = 0

SpecCopyReturn == InitCopyReturn /\ [][NextCopy]_vars

\* C33: every iteration of copy(s) yields exactly as many elements as s
\* yields before it signals done, also when the done result of s carries a
\* value: that value is not replayed as an element.
C33_CopyPreservesLength ==
  IsFinite(iterables[1]) =>
    \A id \in 1..Len(got) :
      /\ Len(got[id]) <= Len(iterables[1].items)
      /\ dones[id] >= 1 => got[id] = iterables[1].items

(***************************************************************************)
(* SpecCombine: a consumer holds g = combine(iterables) and calls           *)
(* g.next().  Generator i (1-based) is combine(iterables.slice(i - 1)):     *)
(* generator 1 is g, and generator i < n reads generator i + 1 through      *)
(* copies[i] = copy(combine(iterables.slice(i))).  depth is the generator   *)
(* whose code runs; frames[i].pc is where generator i stands:               *)
(*   "head"   at `for (const head of iterables[0])` (case 1: at its for)    *)
(*   "tails"  at `for (const tail of tails)`, about to call next()          *)
(*   "loop"   in getIteratorResultAtIndex of copies[i]                      *)
(*   "done"   the generator has returned                                    *)
(***************************************************************************)
\* the i-th argument, as in the tests: range(0, 1), range(3, 4), range(6, 7)
RangeMin(i) == 3 * (i - 1)

CombineInputs(i) ==
  {range(RangeMin(i), RangeMin(i) + len - 1) : len \in 0..MaxLen}
    \cup {naturalNumbers}

NewFrame == [pc |-> "head", head |-> Undefined, index |-> 0]

\* The iteration of copies[i] that a for-of over tails has finished is never
\* used again, so its entry of indexes is not kept: the running iteration
\* is the only entry.
dropIterators(c) == [c EXCEPT !.indexes = <<>>]

InitCombine ==
  /\ \E n \in 0..MaxSeqs :
       /\ iterables \in {s \in [1..n -> UNION {CombineInputs(i) : i \in 1..n}] :
                           \A i \in 1..n : s[i] \in CombineInputs(i)}
       /\ gens = [i \in 1..n |-> NewGen]
       /\ pulls = [i \in 1..n |-> 0]
       /\ copies = [i \in 1..(n - 1) |-> NewCopy]
       /\ frames = [i \in 1..n |-> NewFrame]
  /\ depth = 0
  /\ out = <<>>
  /\ outDone = 0
  /\ active = 0
  /\ index = 0
  /\ got = <<>>
  /\ dones = <<>>
  /\ calls = <<>>
  /\ raised = <<>>

\* the result of a generator that has returned, or returns now
DoneResult == [done |-> TRUE, value |-> Undefined]

\* a changed yieldTuple: the head is put after the tail
yieldTupleHeadLast(head, tail) == tail \o <<head>>

\* yield [head, ...tail]
yieldTuple(head, tail) == <<head>> \o tail

\* yield [value]
yieldSingle(value) == <<value>>

\* Generator i hands result r to its caller: the consumer (i = 1), or
\* take(iterable, 1) in the loop of copies[i - 1], which caches it.  cs is
\* copies after generator i's own step.
Return(i, r, cs) ==
  IF i = 1
  THEN /\ depth' = 0
       /\ copies' = cs
       /\ IF r.done
          THEN outDone' = outDone + 1 /\ out' = out
          ELSE out' = Append(out, r.value) /\ outDone' = outDone
  ELSE /\ depth' = i - 1
       /\ copies' = [cs EXCEPT ![i - 1] = cacheTaken(@, take1(r))]
       /\ UNCHANGED <<out, outDone>>

\* the consumer calls g.next()
CombineNextCall ==
  /\ depth = 0
  /\ Len(out) + outDone < MaxNext
  /\ IF Len(iterables) = 0
     THEN \* case 0: return
          /\ outDone' = outDone + 1
          /\ UNCHANGED <<depth, out>>
     ELSE /\ depth' = 1
          /\ UNCHANGED <<out, outDone>>
  /\ UNCHANGED <<iterables, gens, pulls, copies, frames, copyVars>>

\* next() on a generator that has returned
CombineFinished(i) ==
  /\ depth = i
  /\ frames[i].pc = "done"
  /\ Return(i, DoneResult, copies)
  /\ UNCHANGED <<iterables, gens, pulls, frames, copyVars>>

\* a changed CombineSingle: the value after the yielded one is read ahead
CombineSingleAhead(i) ==
  /\ depth = i
  /\ i = Len(iterables)
  /\ frames[i].pc = "head"
  /\ LET it == GenNext(iterables[i], gens[i])
         ahead == GenNext(iterables[i], it.state) IN
       /\ gens' = [gens EXCEPT ![i] = it.state]
       /\ pulls' = [pulls EXCEPT ![i] = countPull(countPull(@))]
       /\ IF it.result.done
          THEN /\ frames' = [frames EXCEPT ![i].pc = "done"]
               /\ Return(i, DoneResult, copies)
          ELSE /\ frames' = frames
               /\ Return(i, [done |-> FALSE,
                             value |-> yieldSingle(it.result.value)], copies)
  /\ UNCHANGED <<iterables, copyVars>>

\* case 1: for (const value of iterables[0]) yield [value]
CombineSingle(i) ==
  /\ depth = i
  /\ i = Len(iterables)
  /\ frames[i].pc = "head"
  /\ LET it == GenNext(iterables[i], gens[i]) IN
       /\ gens' = [gens EXCEPT ![i] = it.state]
       /\ pulls' = [pulls EXCEPT ![i] = countPull(@)]
       /\ IF it.result.done
          THEN /\ frames' = [frames EXCEPT ![i].pc = "done"]
               /\ Return(i, DoneResult, copies)
          ELSE /\ frames' = frames
               /\ Return(i, [done |-> FALSE,
                             value |-> yieldSingle(it.result.value)], copies)
  /\ UNCHANGED <<iterables, copyVars>>

\* a changed CombineHead: tails is built anew for every head
CombineHeadNewTails(i) ==
  /\ depth = i
  /\ i < Len(iterables)
  /\ frames[i].pc = "head"
  /\ LET it == GenNext(iterables[i], gens[i]) IN
       /\ gens' = [gens EXCEPT ![i] = it.state]
       /\ pulls' = [pulls EXCEPT ![i] = countPull(@)]
       /\ IF it.result.done
          THEN /\ frames' = [frames EXCEPT ![i].pc = "done"]
               /\ Return(i, DoneResult, copies)
          ELSE /\ frames' = [frames EXCEPT ![i].pc = "tails",
                                           ![i].head = it.result.value]
               /\ copies' = [copies EXCEPT ![i] = copyIterator(NewCopy)]
               /\ UNCHANGED <<depth, out, outDone>>
  /\ UNCHANGED <<iterables, copyVars>>

\* default: for (const head of iterables[0]): the next head is pulled, and
\* `for (const tail of tails)` starts a new iteration of the copy
CombineHead(i) ==
  /\ depth = i
  /\ i < Len(iterables)
  /\ frames[i].pc = "head"
  /\ LET it == GenNext(iterables[i], gens[i]) IN
       /\ gens' = [gens EXCEPT ![i] = it.state]
       /\ pulls' = [pulls EXCEPT ![i] = countPull(@)]
       /\ IF it.result.done
          THEN /\ frames' = [frames EXCEPT ![i].pc = "done"]
               /\ Return(i, DoneResult, copies)
          ELSE /\ frames' = [frames EXCEPT ![i].pc = "tails",
                                           ![i].head = it.result.value]
               /\ copies' = [copies EXCEPT
                               ![i] = copyIterator(dropIterators(@))]
               /\ UNCHANGED <<depth, out, outDone>>
  /\ UNCHANGED <<iterables, copyVars>>

\* the for-of over tails calls next(): getIteratorResultAtIndex(indexes[id]++)
CombineTailNext(i) ==
  /\ depth = i
  /\ frames[i].pc = "tails"
  /\ frames' = [frames EXCEPT ![i].pc = "loop",
                              ![i].index = copies[i].indexes[1]]
  /\ copies' = [copies EXCEPT ![i].indexes[1] = @ + 1]
  /\ UNCHANGED <<iterables, gens, pulls, depth, out, outDone, copyVars>>

\* one iteration of the while loop: with !done, take(iterable, 1) calls
\* next() on generator i + 1, whose result Return caches; with done the
\* body does nothing
CombineLoop(i) ==
  /\ depth = i
  /\ frames[i].pc = "loop"
  /\ loopCondition(copies[i], frames[i].index)
  /\ IF ~copies[i].done
     THEN depth' = i + 1
     ELSE depth' = depth
  /\ UNCHANGED <<iterables, gens, pulls, copies, frames, out, outDone, copyVars>>

\* the loop has exited: a done result ends the for-of over tails and the
\* next head is taken; a value is yielded as [head, ...tail]
CombineTail(i) ==
  /\ depth = i
  /\ frames[i].pc = "loop"
  /\ ~loopCondition(copies[i], frames[i].index)
  /\ LET r == iteratorResult(copies[i], frames[i].index) IN
       IF r.done
       THEN /\ frames' = [frames EXCEPT ![i].pc = "head"]
            /\ UNCHANGED <<depth, copies, out, outDone>>
       ELSE /\ frames' = [frames EXCEPT ![i].pc = "tails"]
            /\ Return(i, [done |-> FALSE,
                          value |-> yieldTuple(frames[i].head, r.value)], copies)
  /\ UNCHANGED <<iterables, gens, pulls, copyVars>>

\* the code of the running generator advances
CombineRun ==
  \/ \E i \in 1..MaxSeqs : i <= Len(iterables) /\ CombineFinished(i)
  \/ \E i \in 1..MaxSeqs : i <= Len(iterables) /\ CombineSingle(i)
  \/ \E i \in 1..MaxSeqs : i <= Len(iterables) /\ CombineHead(i)
  \/ \E i \in 1..MaxSeqs : i <= Len(iterables) /\ CombineTailNext(i)
  \/ \E i \in 1..MaxSeqs : i <= Len(iterables) /\ CombineLoop(i)
  \/ \E i \in 1..MaxSeqs : i <= Len(iterables) /\ CombineTail(i)

NextCombine == CombineNextCall \/ CombineRun

\* a call that was entered keeps running: the consumer may stop calling
\* next(), the JavaScript engine does not stop inside a call
SpecCombine == InitCombine /\ [][NextCombine]_vars /\ WF_vars(CombineRun)

(***************************************************************************)
(* Properties of combine.                                                  *)
(***************************************************************************)
N == Len(iterables)

Items(i) == iterables[i].items

AllFinite == \A i \in 1..N : IsFinite(iterables[i])

\* the number of tuples over sequences i, i + 1, ..., N
RECURSIVE SizeFrom(_)
SizeFrom(i) == IF i > N THEN 1 ELSE Len(Items(i)) * SizeFrom(i + 1)

\* the number of tuples of the whole product; combine([]) has none
Total == IF N = 0 THEN 0 ELSE SizeFrom(1)

\* the tuple at lexicographic position p = 0, 1, ... (last index fastest)
TupleAt(p) ==
  [i \in 1..N |-> Items(i)[((p \div SizeFrom(i + 1)) % Len(Items(i))) + 1]]

\* the values sequence i can yield
Elements(i) ==
  IF IsFinite(iterables[i])
  THEN {Items(i)[j] : j \in 1..Len(Items(i))}
  ELSE 0..NatSat

\* C4: over finite sequences the consumer receives the tuples of the product
\* in lexicographic order, the last index varying fastest, each at its
\* position, and exactly Total of them before done; combine([]) is empty.
C4_CombineOdometerOrder ==
  AllFinite =>
    /\ Len(out) <= Total
    /\ \A p \in 1..Len(out) : out[p] = TupleAt(p - 1)
    /\ outDone >= 1 => Len(out) = Total

\* C4 witness: three two-element sequences drained: eight tuples, then done
C4_Witness ==
  /\ N = 3
  /\ \A i \in 1..N : IsFinite(iterables[i]) /\ Len(Items(i)) = 2
  /\ Len(out) = 8
  /\ outDone = 1

BothNaturals ==
  N = 2 /\ ~IsFinite(iterables[1]) /\ ~IsFinite(iterables[2])

TwoWithFiniteRight == N = 2 /\ IsFinite(iterables[2])

\* the left source is pulled for its next value only after the current left
\* value was paired with every right-hand value
LeftWaitsForPairs ==
  pulls[1] >= 1 => Len(out) >= (pulls[1] - 1) * Len(Items(2))

InfiniteFirstFiniteRest ==
  /\ N >= 2
  /\ ~IsFinite(iterables[1])
  /\ \A i \in 2..N : IsFinite(iterables[i])

RestNonEmpty == \A i \in 2..N : Len(Items(i)) >= 1

C8_TupleShape ==
  /\ \A k \in 1..Len(out) :
       /\ Len(out[k]) = N
       /\ \A i \in 1..N : out[k][i] \in Elements(i)
  /\ \A l \in 1..Len(copies) :
       \A k \in 1..(Len(copies[l].values) - (IF copies[l].done THEN 1 ELSE 0)) :
         /\ Len(copies[l].values[k]) = N - l
         /\ \A i \in 1..(N - l) : copies[l].values[k][i] \in Elements(l + i)

\* C8 witness: triples have been received
C8_Witness ==
  /\ N = 3
  /\ Len(out) >= 2

EmptyInput == AllFinite /\ \E i \in 1..N : Len(Items(i)) = 0

\* C32: when all input sequences are finite and one of them is empty, no
\* tuple is ever yielded, no sequence is pulled more often than once per
\* element and once for its end, and a running next() returns, with done.
C32_EmptyInputEmptyResult ==
  /\ [](EmptyInput =>
          /\ out = <<>>
          /\ \A i \in 1..N : pulls[i] <= Len(Items(i)) + 1)
  /\ (EmptyInput /\ depth # 0) ~> (depth = 0 /\ outDone >= 1)

\* C32 witness: a non-empty, an empty and a non-empty sequence: done was
\* returned after the first sequence was read to its end
C32_Witness ==
  /\ N = 3
  /\ AllFinite
  /\ Len(Items(1)) = 2 /\ Len(Items(2)) = 0 /\ Len(Items(3)) = 2
  /\ depth = 0
  /\ out = <<>>
  /\ outDone >= 1
  /\ pulls[1] = 3

(***************************************************************************)
(* SpecConcat: a consumer holds g = concat(iterables) and calls g.next().  *)
(* frames[1] is g: pc "for" while it stands in its for-of (offset          *)
(* iterables are behind it, `yield* iterables[offset]` is the current      *)
(* one), "done" once it has returned.                                      *)
(***************************************************************************)
InitConcat ==
  /\ \E n \in 0..MaxSeqs :
       /\ iterables \in {s \in [1..n -> UNION {CombineInputs(i) : i \in 1..n}] :
                           \A i \in 1..n : s[i] \in CombineInputs(i)}
       /\ gens = [i \in 1..n |-> NewGen]
       /\ pulls = [i \in 1..n |-> 0]
  /\ frames = <<[pc |-> "for", offset |-> 0]>>
  /\ copies = <<>>
  /\ depth = 0
  /\ out = <<>>
  /\ outDone = 0
  /\ active = 0
  /\ index = 0
  /\ got = <<>>
  /\ dones = <<>>
  /\ calls = <<>>
  /\ raised = <<>>

\* the consumer calls g.next()
ConcatNextCall ==
  /\ depth = 0
  /\ Len(out) + outDone < MaxNext
  /\ depth' = 1
  /\ UNCHANGED <<iterables, gens, pulls, copies, frames, out, outDone, copyVars>>

\* next() on the generator after it has returned
ConcatFinished ==
  /\ depth = 1
  /\ frames[1].pc = "done"
  /\ depth' = 0
  /\ outDone' = outDone + 1
  /\ UNCHANGED <<iterables, gens, pulls, copies, frames, out, copyVars>>

\* the for-of has no iterable left: the generator returns
ConcatEnd ==
  /\ depth = 1
  /\ frames[1].pc = "for"
  /\ frames[1].offset >= Len(iterables)
  /\ frames' = [frames EXCEPT ![1].pc = "done"]
  /\ depth' = 0
  /\ outDone' = outDone + 1
  /\ UNCHANGED <<iterables, gens, pulls, copies, out, copyVars>>

\* a changed ConcatDelegate: the end of one iterable ends the generator
ConcatDelegateReturns ==
  /\ depth = 1
  /\ frames[1].pc = "for"
  /\ frames[1].offset < Len(iterables)
  /\ LET i == frames[1].offset + 1
         it == GenNext(iterables[i], gens[i]) IN
       /\ gens' = [gens EXCEPT ![i] = it.state]
       /\ pulls' = [pulls EXCEPT ![i] = countPull(@)]
       /\ IF it.result.done
          THEN /\ frames' = [frames EXCEPT ![1].pc = "done"]
               /\ depth' = 0
               /\ outDone' = outDone + 1
               /\ out' = out
          ELSE /\ out' = Append(out, it.result.value)
               /\ depth' = 0
               /\ UNCHANGED <<frames, outDone>>
  /\ UNCHANGED <<iterables, copies, copyVars>>

\* a changed ConcatDelegate: the for-of moves on after every value
ConcatDelegateAdvances ==
  /\ depth = 1
  /\ frames[1].pc = "for"
  /\ frames[1].offset < Len(iterables)
  /\ LET i == frames[1].offset + 1
         it == GenNext(iterables[i], gens[i]) IN
       /\ gens' = [gens EXCEPT ![i] = it.state]
       /\ pulls' = [pulls EXCEPT ![i] = countPull(@)]
       /\ frames' = [frames EXCEPT ![1].offset = @ + 1]
       /\ IF it.result.done
          THEN UNCHANGED <<depth, out, outDone>>
          ELSE /\ out' = Append(out, it.result.value)
               /\ depth' = 0
               /\ outDone' = outDone
  /\ UNCHANGED <<iterables, copies, copyVars>>

\* yield* iterable: next() of the current iterable; its value is yielded,
\* its end moves the for-of to the next iterable
ConcatDelegate ==
  /\ depth = 1
  /\ frames[1].pc = "for"
  /\ frames[1].offset < Len(iterables)
  /\ LET i == frames[1].offset + 1
         it == GenNext(iterables[i], gens[i]) IN
       /\ gens' = [gens EXCEPT ![i] = it.state]
       /\ pulls' = [pulls EXCEPT ![i] = countPull(@)]
       /\ IF it.result.done
          THEN /\ frames' = [frames EXCEPT ![1].offset = @ + 1]
               /\ UNCHANGED <<depth, out, outDone>>
          ELSE /\ out' = Append(out, it.result.value)
               /\ depth' = 0
               /\ UNCHANGED <<frames, outDone>>
  /\ UNCHANGED <<iterables, copies, copyVars>>

\* the generator's code advances
ConcatRun == ConcatFinished \/ ConcatEnd \/ ConcatDelegate

NextConcat == ConcatNextCall \/ ConcatRun

\* a call that was entered keeps running
SpecConcat == InitConcat /\ [][NextConcat]_vars /\ WF_vars(ConcatRun)

(***************************************************************************)
(* Properties of concat.                                                   *)
(***************************************************************************)
\* the elements of sequences i, i + 1, ..., N in list order
RECURSIVE ConcatenationFrom(_)
ConcatenationFrom(i) ==
  IF i > N THEN <<>> ELSE Items(i) \o ConcatenationFrom(i + 1)

\* C10: over finite sequences (empty ones at any position, the empty list)
\* the consumer receives the concatenation of the sequences' elements in
\* list order and then done; every next() returns, and the first next() of
\* concat([]) returns done.
C10_ConcatYieldsConcatenation ==
  /\ [](AllFinite =>
          /\ Len(out) <= Len(ConcatenationFrom(1))
          /\ out = SubSeq(ConcatenationFrom(1), 1, Len(out))
          /\ outDone >= 1 => out = ConcatenationFrom(1))
  /\ (AllFinite /\ depth # 0) ~> (depth = 0)

\* C10 witness: an empty sequence between two non-empty ones, drained
C10_Witness ==
  /\ N = 3
  /\ AllFinite
  /\ Len(Items(1)) = 2 /\ Len(Items(2)) = 0 /\ Len(Items(3)) = 2
  /\ Len(out) = 4
  /\ outDone = 1

\* C11: concat pulls its sequences in list order: sequences[i+1] is not
\* pulled before sequences[i] has signalled exhaustion, a sequence that has
\* signalled exhaustion is not pulled again (so a finite one is asked at most
\* once more than it has elements), and nothing behind an infinite sequence
\* is ever pulled.
C11_ConcatPullOrder ==
  /\ [](\A i \in 1..N :
          /\ (i < N /\ pulls[i + 1] >= 1) => gens[i].closed
          /\ IsFinite(iterables[i]) => pulls[i] <= Len(Items(i)) + 1
          /\ ~IsFinite(iterables[i]) => \A j \in (i + 1)..N : pulls[j] = 0)
  /\ [][\A i \in 1..N : gens[i].closed => pulls'[i] = pulls[i]]_vars

\* C11 witness: the first sequence has ended, the infinite second one has
\* been pulled three times, the third one not at all
C11_Witness ==
  /\ N = 3
  /\ IsFinite(iterables[1]) /\ Len(Items(1)) = 2 /\ gens[1].closed
  /\ ~IsFinite(iterables[2]) /\ pulls[2] >= 3
  /\ pulls[3] = 0

\* The objects of a run: input generator i is object i; an object created
\* by a call is none of them.
NewObject == 0

\* concat(iterables): the object the call returns.  concat is a generator
\* function, so every call returns a generator object of its own.
concatResult(its) == NewObject

\* C12: concat of exactly one sequence s returns s itself: the result is the
\* object s, and pulling the result is pulling s, so every next() call the
\* consumer has made is a next() call on s.
C12_ConcatOfOneIsThatSequence ==
  N = 1 =>
    /\ concatResult(iterables) = 1
    /\ depth = 0 => pulls[1] = Len(out) + outDone

(***************************************************************************)
(* filter, filterMap and map: a consumer holds g = filter(iterable,        *)
(* predicate) (or filterMap(iterable, transform), map(iterable,            *)
(* transformer)) and calls g.next().  iterables[1] is the iterable;        *)
(* frames[1] is g: its function argument, and pc "for" while it stands in  *)
(* its for-of, "done" once it has returned.  The caller's functions are    *)
(* pure; calls records the values they were called with.                   *)
(***************************************************************************)
\* predicates: decided by the parity of the value, as the tests' n % 2 === 0
Predicates == [0..1 -> BOOLEAN]

\* predicate(value)
predicate(p, value) == p[value % 2]

\* what a filterMap transform does with a value: call skip and return
\* nothing, call skip and return a value, return undefined, return a value
TransformKinds == {"skip", "skipValue", "undefined", "value"}

\* transforms: decided by the value modulo 3
Transforms == [0..2 -> TransformKinds]

\* transform(value, () => { skipped = true }): whether skip was called, and
\* the value returned
transform(t, value) ==
  [skipped |-> t[value % 3] \in {"skip", "skipValue"},
   mappedValue |-> IF t[value % 3] \in {"skipValue", "value"}
                   THEN 2 * value + 1
                   ELSE Undefined]

\* transformers of map: value => scale * value + shift (the tests' n * 2)
Transformers == {[scale |-> a, shift |-> b] : a \in {0, 2}, b \in {0, 1}}

\* transformer(value)
transformer(t, value) == t.scale * value + t.shift

\* one more call of the caller's function; like the count of pulls, the
\* record stops growing at NatSat
recordCall(log, value) == IF Len(log) < NatSat THEN Append(log, value) ELSE log

\* a changed filterBody: the test is inverted
filterBodyNegated(p, value) == IF ~predicate(p, value) THEN <<value>> ELSE <<>>

\* filter, the body of the for-of: if (predicate(value)) yield value.
\* The values one iteration yields.
filterBody(p, value) == IF predicate(p, value) THEN <<value>> ELSE <<>>

\* a changed filterMapBody: only the skip call is looked at
filterMapBodySkipOnly(t, value) ==
  LET r == transform(t, value) IN
    IF ~r.skipped THEN <<r.mappedValue>> ELSE <<>>

\* filterMap, the body of the for-of:
\* if (!skipped && mappedValue !== undefined) yield mappedValue
filterMapBody(t, value) ==
  LET r == transform(t, value) IN
    IF ~r.skipped /\ r.mappedValue # Undefined THEN <<r.mappedValue>> ELSE <<>>

\* a changed mapBody: the value is yielded as it is
mapBodyIdentity(t, value) == <<value>>

\* map, the body of the for-of: yield transformer(value)
mapBody(t, value) == <<transformer(t, value)>>

InitPipe(fn) ==
  /\ iterables \in {<<g>> : g \in CopyInputs}
  /\ gens = <<NewGen>>
  /\ pulls = <<0>>
  /\ frames = <<[pc |-> "for", fn |-> fn]>>
  /\ copies = <<>>
  /\ depth = 0
  /\ out = <<>>
  /\ outDone = 0
  /\ active = 0
  /\ index = 0
  /\ got = <<>>
  /\ dones = <<>>
  /\ calls = <<>>
  /\ raised = <<>>

\* the consumer calls g.next()
GeneratorNextCall ==
  /\ depth = 0
  /\ Len(out) + outDone < MaxNext
  /\ depth' = 1
  /\ UNCHANGED <<iterables, gens, pulls, copies, frames, out, outDone, copyVars>>

\* next() on a generator that has returned
GeneratorFinished ==
  /\ depth = 1
  /\ frames[1].pc = "done"
  /\ depth' = 0
  /\ outDone' = outDone + 1
  /\ UNCHANGED <<iterables, gens, pulls, copies, frames, out, copyVars>>

\* the body of the for-of of the generator function of that name
forOfBody(name, fn, value) ==
  CASE name = "filter" -> filterBody(fn, value)
    [] name = "filterMap" -> filterMapBody(fn, value)
    [] name = "map" -> mapBody(fn, value)

\* One iteration of `for (const value of iterable) { body }` of the
\* generator function of that name: the end of the iterable ends the
\* generator, a yield returns to the consumer, no yield goes round the loop.
ForOfIteration(name) ==
  /\ depth = 1
  /\ frames[1].pc = "for"
  /\ LET it == GenNext(iterables[1], gens[1])
         yielded(value) == forOfBody(name, frames[1].fn, value) IN
       /\ gens' = [gens EXCEPT ![1] = it.state]
       /\ pulls' = [pulls EXCEPT ![1] = countPull(@)]
       /\ IF it.result.done
          THEN /\ frames' = [frames EXCEPT ![1].pc = "done"]
               /\ depth' = 0
               /\ outDone' = outDone + 1
               /\ UNCHANGED <<out, calls>>
          ELSE /\ calls' = recordCall(calls, it.result.value)
               /\ IF yielded(it.result.value) # <<>>
                  THEN /\ out' = Append(out, yielded(it.result.value)[1])
                       /\ depth' = 0
                  ELSE UNCHANGED <<out, depth>>
               /\ UNCHANGED <<frames, outDone>>
  /\ UNCHANGED <<iterables, copies, active, index, got, dones, raised>>

InitFilter == \E p \in Predicates : InitPipe(p)

FilterIteration == ForOfIteration("filter")

FilterRun == GeneratorFinished \/ FilterIteration

NextFilter == GeneratorNextCall \/ FilterRun

SpecFilter == InitFilter /\ [][NextFilter]_vars /\ WF_vars(FilterRun)

InitFilterMap == \E t \in Transforms : InitPipe(t)

FilterMapIteration == ForOfIteration("filterMap")

FilterMapRun == GeneratorFinished \/ FilterMapIteration

NextFilterMap == GeneratorNextCall \/ FilterMapRun

SpecFilterMap == InitFilterMap /\ [][NextFilterMap]_vars /\ WF_vars(FilterMapRun)

InitMap == \E t \in Transformers : InitPipe(t)

MapIteration == ForOfIteration("map")

MapRun == GeneratorFinished \/ MapIteration

NextMap == GeneratorNextCall \/ MapRun

SpecMap == InitMap /\ [][NextMap]_vars /\ WF_vars(MapRun)

(***************************************************************************)
(* Properties of filterMap, filter and map.                                *)
(***************************************************************************)
\* the count of pulls of the iterable is exact (it has not stopped growing)
Unsaturated == pulls[1] < NatSat

\* the caller's function was called once with each element pulled so far,
\* in order, and with nothing else
CalledOncePerElement ==
  /\ Len(calls) = gens[1].pos
  /\ \A k \in 1..Len(calls) : calls[k] = ElementAt(iterables[1], k)

\* a done result was returned only after the whole iterable was pulled
DoneOnlyAtEnd ==
  outDone >= 1 =>
    IsFinite(iterables[1]) /\ gens[1].pos = Len(iterables[1].items)

\* the transform returns a value for the element and does not call skip
Delivered(t, value) == t[value % 3] = "value"

\* what filterMap is to yield for the elements s
RECURSIVE FilterMapOf(_, _)
FilterMapOf(t, s) ==
  IF s = <<>> THEN <<>>
  ELSE (IF Delivered(t, Head(s))
        THEN <<transform(t, Head(s)).mappedValue>>
        ELSE <<>>) \o FilterMapOf(t, Tail(s))

\* C13: filterMap yields, in the order of the iterable, the transform's
\* return value for exactly the elements for which the transform did not
\* call skip and returned a value other than undefined; an element is
\* dropped when skip was called (also with a value returned) and when
\* undefined is returned without a skip call.
C13_FilterMapYieldsDelivered ==
  Unsaturated =>
    /\ CalledOncePerElement
    /\ out = FilterMapOf(frames[1].fn, calls)
    /\ \A k \in 1..Len(out) : out[k] # Undefined
    /\ DoneOnlyAtEnd

\* C13 witness: over the naturals, a transform that skips with a value,
\* returns undefined, returns a value, in turn: 2 and 5 were delivered
C13_Witness ==
  /\ ~IsFinite(iterables[1])
  /\ frames[1].fn = [r \in 0..2 |->
                       IF r = 0 THEN "skipValue"
                       ELSE IF r = 1 THEN "undefined" ELSE "value"]
  /\ calls = <<0, 1, 2, 3, 4, 5>>
  /\ out = <<5, 11>>
  /\ depth = 0

\* the predicate holds of the value
Passes(value) == frames[1].fn[value % 2]

\* C14: over a finite iterable, filter yields exactly the elements that
\* satisfy the predicate, unchanged and in the order of the iterable, and
\* then done; the predicate is called once with each element pulled.
C14_FilterYieldsSubsequence ==
  IsFinite(iterables[1]) =>
    /\ CalledOncePerElement
    /\ out = SelectSeq(calls, Passes)
    /\ DoneOnlyAtEnd
    /\ outDone >= 1 => out = SelectSeq(iterables[1].items, Passes)

\* C14 witness: of the elements 0, 1 the odd one was yielded, then done
C14_Witness ==
  /\ iterables[1] = fromArray(<<0, 1>>)
  /\ frames[1].fn = [r \in 0..1 |-> r = 1]
  /\ calls = <<0, 1>>
  /\ out = <<1>>
  /\ outDone = 1

\* C15: the k-th value map yields is the transformer applied to the k-th
\* element; the transformer has been called once per value yielded, so
\* never for an element the consumer has not pulled and not for the end of
\* the iterable, which is asked once per next() call and not ahead.
C15_MapIsLazy ==
  /\ CalledOncePerElement
  /\ Len(calls) = Len(out)
  /\ \A k \in 1..Len(out) :
       out[k] = transformer(frames[1].fn, ElementAt(iterables[1], k))
  /\ DoneOnlyAtEnd
  /\ pulls[1] <= Len(out) + 1
  /\ depth = 0 => pulls[1] = Len(out) + (IF outDone >= 1 THEN 1 ELSE 0)

\* C15 witness: the naturals doubled: 0, 2, 4 after three calls of next()
\* and of the transformer
C15_Witness ==
  /\ ~IsFinite(iterables[1])
  /\ frames[1].fn = [scale |-> 2, shift |-> 0]
  /\ out = <<0, 2, 4>>
  /\ calls = <<0, 1, 2>>
  /\ pulls[1] = 3

\* the elements the iterable has handed out so far
PulledElements == [k \in 1..gens[1].pos |-> ElementAt(iterables[1], k)]

\* C35: when a next() call on filter(s, p) has returned an element, that
\* element is the last one pulled from s: it sits at position j (from 0) of
\* s, it is the passing element of that rank, and s was asked j + 1 times
\* in all, so nothing behind it has been pulled.
C35_FilterNoLookAhead ==
  (Unsaturated /\ depth = 0 /\ outDone = 0 /\ out # <<>>) =>
    LET j == gens[1].pos - 1 IN
      /\ j >= 0
      /\ out[Len(out)] = ElementAt(iterables[1], j + 1)
      /\ Passes(ElementAt(iterables[1], j + 1))
      /\ Len(out) = Len(SelectSeq(PulledElements, Passes))
      /\ pulls[1] = j + 1

\* C35 witness: over the naturals the odd values pass; 1 and 3 were
\* returned, and the naturals were asked four times
C35_Witness ==
  /\ ~IsFinite(iterables[1])
  /\ frames[1].fn = [r \in 0..1 |-> r = 1]
  /\ out = <<1, 3>>
  /\ pulls[1] = 4
  /\ depth = 0

(***************************************************************************)
(* SpecFlatten: a consumer holds g = flatten(fromArray([s1, ..., sn])) and *)
(* calls g.next().  iterables[1..n] are the inner iterables s1, ..., sn    *)
(* and iterables[n + 1] is the outer one, whose elements are the inner     *)
(* ones (object i stands for si).  frames[1] is g:                         *)
(*   "for"     at `for (const yieldedIterable of iterable)`                *)
(*   "yield*"  in `yield* yieldedIterable`, yieldedIterable being          *)
(*             frames[1].yieldedIterable                                   *)
(*   "done"    the generator has returned                                  *)
(***************************************************************************)
InitFlatten ==
  /\ \E n \in 0..MaxSeqs :
       /\ iterables \in
            {s \in [1..(n + 1) -> UNION {CombineInputs(i) : i \in 1..n}
                                    \cup {fromArray([i \in 1..n |-> i])}] :
               /\ \A i \in 1..n : s[i] \in CombineInputs(i)
               /\ s[n + 1] = fromArray([i \in 1..n |-> i])}
       /\ gens = [i \in 1..(n + 1) |-> NewGen]
       /\ pulls = [i \in 1..(n + 1) |-> 0]
  /\ frames = <<[pc |-> "for", yieldedIterable |-> Undefined]>>
  /\ copies = <<>>
  /\ depth = 0
  /\ out = <<>>
  /\ outDone = 0
  /\ active = 0
  /\ index = 0
  /\ got = <<>>
  /\ dones = <<>>
  /\ calls = <<>>
  /\ raised = <<>>

\* the outer iterable
Outer == Len(iterables)

\* for (const yieldedIterable of iterable): the outer iterable is asked for
\* the next inner one; its end ends the generator
FlattenOuter ==
  /\ depth = 1
  /\ frames[1].pc = "for"
  /\ LET it == GenNext(iterables[Outer], gens[Outer]) IN
       /\ gens' = [gens EXCEPT ![Outer] = it.state]
       /\ pulls' = [pulls EXCEPT ![Outer] = countPull(@)]
       /\ IF it.result.done
          THEN /\ frames' = [frames EXCEPT ![1].pc = "done"]
               /\ depth' = 0
               /\ outDone' = outDone + 1
          ELSE /\ frames' = [frames EXCEPT ![1].pc = "yield*",
                                           ![1].yieldedIterable = it.result.value]
               /\ UNCHANGED <<depth, outDone>>
  /\ UNCHANGED <<iterables, copies, out, copyVars>>

\* a changed FlattenDelegate: the end of an inner iterable ends the generator
FlattenDelegateReturns ==
  /\ depth = 1
  /\ frames[1].pc = "yield*"
  /\ LET i == frames[1].yieldedIterable
         it == GenNext(iterables[i], gens[i]) IN
       /\ gens' = [gens EXCEPT ![i] = it.state]
       /\ pulls' = [pulls EXCEPT ![i] = countPull(@)]
       /\ IF it.result.done
          THEN /\ frames' = [frames EXCEPT ![1].pc = "done"]
               /\ depth' = 0
               /\ outDone' = outDone + 1
               /\ out' = out
          ELSE /\ out' = Append(out, it.result.value)
               /\ depth' = 0
               /\ UNCHANGED <<frames, outDone>>
  /\ UNCHANGED <<iterables, copies, copyVars>>

\* a changed FlattenDelegate: the for-of moves on after every value
FlattenDelegateAdvances ==
  /\ depth = 1
  /\ frames[1].pc = "yield*"
  /\ LET i == frames[1].yieldedIterable
         it == GenNext(iterables[i], gens[i]) IN
       /\ gens' = [gens EXCEPT ![i] = it.state]
       /\ pulls' = [pulls EXCEPT ![i] = countPull(@)]
       /\ frames' = [frames EXCEPT ![1].pc = "for"]
       /\ IF it.result.done
          THEN UNCHANGED <<depth, out, outDone>>
          ELSE /\ out' = Append(out, it.result.value)
               /\ depth' = 0
               /\ outDone' = outDone
  /\ UNCHANGED <<iterables, copies, copyVars>>

\* yield* yieldedIterable: next() of the inner iterable; its value is
\* yielded, its end takes the generator back to the for-of
FlattenDelegate ==
  /\ depth = 1
  /\ frames[1].pc = "yield*"
  /\ LET i == frames[1].yieldedIterable
         it == GenNext(iterables[i], gens[i]) IN
       /\ gens' = [gens EXCEPT ![i] = it.state]
       /\ pulls' = [pulls EXCEPT ![i] = countPull(@)]
       /\ IF it.result.done
          THEN /\ frames' = [frames EXCEPT ![1].pc = "for"]
               /\ UNCHANGED <<depth, out, outDone>>
          ELSE /\ out' = Append(out, it.result.value)
               /\ depth' = 0
               /\ UNCHANGED <<frames, outDone>>
  /\ UNCHANGED <<iterables, copies, copyVars>>

FlattenRun == GeneratorFinished \/ FlattenOuter \/ FlattenDelegate

NextFlatten == GeneratorNextCall \/ FlattenRun

\* a call that was entered keeps running
SpecFlatten == InitFlatten /\ [][NextFlatten]_vars /\ WF_vars(FlattenRun)

(***************************************************************************)
(* Properties of flatten.                                                  *)
(***************************************************************************)
\* the number of inner iterables
Inner == Len(iterables) - 1

AllInnerFinite == \A i \in 1..Inner : IsFinite(iterables[i])

\* the elements of the inner iterables i, i + 1, ... in outer order
RECURSIVE FlattenedFrom(_)
FlattenedFrom(i) ==
  IF i > Inner THEN <<>> ELSE Items(i) \o FlattenedFrom(i + 1)

\* C16: over a finite outer sequence of finite inner sequences (empty ones
\* at any position) the consumer receives the concatenation of the inner
\* sequences' elements in outer order and then done, and every next()
\* returns.
C16_FlattenYieldsConcatenation ==
  /\ [](AllInnerFinite =>
          /\ Len(out) <= Len(FlattenedFrom(1))
          /\ out = SubSeq(FlattenedFrom(1), 1, Len(out))
          /\ outDone >= 1 => out = FlattenedFrom(1))
  /\ (AllInnerFinite /\ depth # 0) ~> (depth = 0)

\* C16 witness: an empty inner sequence first and another between two
\* non-empty ones, drained
C16_Witness ==
  /\ Inner = 3
  /\ AllInnerFinite
  /\ Len(Items(1)) = 0 /\ Len(Items(2)) = 2 /\ Len(Items(3)) = 0
  /\ out = Items(2)
  /\ outDone = 1

\* the inner iterables the outer one has handed out so far
Fetched == gens[Outer].pos

\* C17: the outer sequence is asked for the next inner sequence only after
\* every inner sequence handed out before has signalled exhaustion, so at
\* most one inner sequence is handed out that has not ended; an inner
\* sequence is pulled only once it was handed out; and once an infinite
\* inner sequence was handed out the outer sequence is not pulled again.
C17_FlattenPullOrder ==
  /\ [](/\ Fetched <= Inner
        /\ \A i \in 1..Inner :
             /\ Fetched > i => gens[i].closed
             /\ pulls[i] >= 1 => Fetched >= i
             /\ ~IsFinite(iterables[i]) => pulls[Outer] <= i)
  /\ [][pulls'[Outer] # pulls[Outer] =>
          \A i \in 1..Fetched : gens[i].closed]_vars
  /\ [][\A i \in 1..Inner :
          (Fetched = i /\ ~IsFinite(iterables[i])) =>
             pulls'[Outer] = pulls[Outer]]_vars

\* C17 witness: behind a finite inner sequence that has ended, an infinite
\* one has been pulled three times with the outer sequence pulled twice
C17_Witness ==
  /\ Inner = 3
  /\ IsFinite(iterables[1]) /\ Len(Items(1)) = 2 /\ gens[1].closed
  /\ ~IsFinite(iterables[2]) /\ pulls[2] >= 3
  /\ pulls[Outer] = 2
  /\ pulls[3] = 0

(***************************************************************************)
(* SpecTake: a caller calls take(iterable, count) on one generator         *)
(* iterables[1], one call after the other, with any counts.  frames[1]     *)
(* holds the locals of the running call: count and result (and, for the    *)
(* record of the call, the count it was called with and the state of the   *)
(* generator it found).  iterable[Symbol.iterator]() of a generator is the *)
(* generator itself.                                                       *)
(***************************************************************************)
\* the state of the iterable as a caller of take finds or leaves it
SourceState == [gen |-> gens[1], pulls |-> pulls[1]]

InitTake ==
  /\ iterables \in {<<g>> : g \in TakeInputs}
  /\ gens = <<NewGen>>
  /\ pulls = <<0>>
  /\ frames = <<[count |-> 0, result |-> <<>>,
                 requested |-> 0, before |-> [gen |-> NewGen, pulls |-> 0]]>>
  /\ copies = <<>>
  /\ depth = 0
  /\ out = <<>>
  /\ outDone = 0
  /\ active = 0
  /\ index = 0
  /\ got = <<>>
  /\ dones = <<>>
  /\ calls = <<>>
  /\ raised = <<>>

\* take(iterable, count) is called: const result = []
TakeCall ==
  /\ depth = 0
  /\ Len(got) < MaxTakes
  /\ \E count \in -1..MaxCount :
       frames' = <<[count |-> count, result |-> <<>>,
                    requested |-> count, before |-> SourceState]>>
  /\ depth' = 1
  /\ UNCHANGED <<iterables, gens, pulls, copies, out, outDone, copyVars>>

\* the call returns result to its caller
TakeRecord(result, after) ==
  [count |-> frames[1].requested, before |-> frames[1].before,
   after |-> after, result |-> result]

\* a changed takeCondition: the loop is entered once more
takeConditionInclusive(count) == count >= 0

\* while (count-- > 0): the test
takeCondition(count) == count > 0

\* one iteration of the while loop: iterator.next(); a done result is
\* pushed if its value is not undefined and breaks the loop, so the call
\* returns; a value is pushed
TakeIteration ==
  /\ depth = 1
  /\ takeCondition(frames[1].count)
  /\ LET it == GenNext(iterables[1], gens[1])
         result == frames[1].result \o take1(it.result) IN
       /\ gens' = [gens EXCEPT ![1] = it.state]
       /\ pulls' = [pulls EXCEPT ![1] = countPull(@)]
       /\ frames' = [frames EXCEPT ![1].count = @ - 1, ![1].result = result]
       /\ IF it.result.done
          THEN /\ got' = Append(got,
                          TakeRecord(result, [gen |-> it.state,
                                              pulls |-> countPull(pulls[1])]))
               /\ depth' = 0
          ELSE UNCHANGED <<got, depth>>
  /\ UNCHANGED <<iterables, copies, out, outDone, active, index, dones, calls, raised>>

\* the test of the while loop fails: return result
TakeReturn ==
  /\ depth = 1
  /\ ~takeCondition(frames[1].count)
  /\ frames' = [frames EXCEPT ![1].count = @ - 1]
  /\ got' = Append(got, TakeRecord(frames[1].result, SourceState))
  /\ depth' = 0
  /\ UNCHANGED <<iterables, gens, pulls, copies, out, outDone,
                 active, index, dones, calls, raised>>

TakeRun == TakeIteration \/ TakeReturn

NextTake == TakeCall \/ TakeRun

\* a call that was entered keeps running
SpecTake == InitTake /\ [][NextTake]_vars /\ WF_vars(TakeRun)

(***************************************************************************)
(* Properties of take.                                                     *)
(***************************************************************************)
Max(a, b) == IF a > b THEN a ELSE b

\* the elements the iterable still has when a call finds it in state before
\* (for the naturals: more than any count)
Available(before) ==
  IF IsFinite(iterables[1])
  THEN Len(iterables[1].items) - before.gen.pos
  ELSE MaxCount + 1

\* the first min(count, n) of the n elements available to a call
FirstAvailable(count, before) ==
  [j \in 1..Min(Max(count, 0), Available(before)) |->
     ElementAt(iterables[1], before.gen.pos + j)]

\* the next() calls a call of take made
Pulled(call) == call.after.pulls - call.before.pulls

\* C18: a call take(sequence, count) with count >= 0 on a sequence with n
\* elements available returns exactly the first min(count, n) of them, in
\* order, and nothing else, after at most count pulls.
C18_TakeReturnsFirstElements ==
  \A k \in 1..Len(got) :
    got[k].count >= 0 =>
      /\ got[k].result = FirstAvailable(got[k].count, got[k].before)
      /\ Pulled(got[k]) <= got[k].count

\* C19: the value a done result carries is never part of take's result:
\* when the generator returns a value other than undefined, no call of take
\* has that value in its result and every result holds elements only.
C19_TakeIgnoresDoneValue ==
  iterables[1].ret # Undefined =>
    \A k \in 1..Len(got) :
      /\ \A j \in 1..Len(got[k].result) : got[k].result[j] # iterables[1].ret
      /\ Len(got[k].result) <= Available(got[k].before)

\* C20: a call of take with count <= 0 returns the empty list, has called
\* next() on the iterable not once, and leaves the iterable as it found it.
C20_TakeNothingPullsNothing ==
  \A k \in 1..Len(got) :
    got[k].count <= 0 =>
      /\ got[k].result = <<>>
      /\ Pulled(got[k]) = 0
      /\ got[k].after = got[k].before

\* C20 witness: take(s, 0) and then take(s, -1) have returned on a
\* generator s that has elements
C20_Witness ==
  /\ Len(got) = 2
  /\ got[1].count = 0 /\ got[2].count = -1
  /\ Len(iterables[1].items) = 2
  /\ gens[1] = NewGen

\* C34: when take(s, a) and then take(s, b) are called on one generator s
\* that has at least a + b elements left, the two results are the next a
\* elements and the b elements after them: their concatenation is what
\* take(s, a + b) gives, and s was asked a + b times.
C34_TakeConsumesWhatItReturns ==
  \A k \in 1..(Len(got) - 1) :
    LET a == got[k].count
        b == got[k + 1].count IN
      (a >= 0 /\ b >= 0 /\ a + b <= Available(got[k].before)) =>
        /\ got[k].result = FirstAvailable(a, got[k].before)
        /\ got[k + 1].before = got[k].after
        /\ got[k].result \o got[k + 1].result
             = [j \in 1..(a + b) |->
                  ElementAt(iterables[1], got[k].before.gen.pos + j)]
        /\ Pulled(got[k]) + Pulled(got[k + 1]) = a + b

\* C34 witness: take(s, 1) returned [0] and take(s, 1) returned [1] on a
\* generator s of the elements 0, 1
C34_Witness ==
  /\ Len(got) = 2
  /\ got[1].count = 1 /\ got[2].count = 1
  /\ got[1].result = <<0>> /\ got[2].result = <<1>>
  /\ Len(iterables[1].items) = 2

(***************************************************************************)
(* SpecRange: a consumer holds g = range(min, max) and calls g.next().     *)
(* frames[1] is g: its parameters, its local i, and pc "start" before the  *)
(* first next(), "yield" while it stands at `yield i`, "done" once it has  *)
(* returned.                                                               *)
(***************************************************************************)
InitRange ==
  /\ \E min \in 0..MaxRange, max \in -1..MaxRange :
       frames = <<[pc |-> "start", min |-> min, max |-> max, i |-> min]>>
  /\ iterables = <<>>
  /\ gens = <<>>
  /\ pulls = <<>>
  /\ copies = <<>>
  /\ depth = 0
  /\ out = <<>>
  /\ outDone = 0
  /\ active = 0
  /\ index = 0
  /\ got = <<>>
  /\ dones = <<>>
  /\ calls = <<>>
  /\ raised = <<>>

\* a changed rangeCondition: max is left out
rangeConditionExclusive(i, max) == i < max

\* i <= max
rangeCondition(i, max) == i <= max

\* for (let i = min; i <= max; i++) yield i: the generator runs to its next
\* yield (from its start, or from the last yield through i++), or returns
RangeIteration ==
  /\ depth = 1
  /\ frames[1].pc \in {"start", "yield"}
  /\ LET i == IF frames[1].pc = "start" THEN frames[1].min ELSE frames[1].i + 1 IN
       IF rangeCondition(i, frames[1].max)
       THEN /\ frames' = [frames EXCEPT ![1].pc = "yield", ![1].i = i]
            /\ out' = Append(out, i)
            /\ outDone' = outDone
       ELSE /\ frames' = [frames EXCEPT ![1].pc = "done", ![1].i = i]
            /\ outDone' = outDone + 1
            /\ out' = out
  /\ depth' = 0
  /\ UNCHANGED <<iterables, gens, pulls, copies, copyVars>>

RangeRun == GeneratorFinished \/ RangeIteration

NextRange == GeneratorNextCall \/ RangeRun

SpecRange == InitRange /\ [][NextRange]_vars /\ WF_vars(RangeRun)

\* the number of integers from min to max
RangeCount == 
  IF frames[1].min <= frames[1].max THEN frames[1].max - frames[1].min + 1 ELSE 0

\* C21: range(min, max) yields min, min + 1, ..., max in ascending order,
\* both bounds included: max - min + 1 values when min <= max (exactly m for
\* range(m, m)) and no value when min > max, and then done.
C21_RangeYieldsMinToMax ==
  /\ Len(out) <= RangeCount
  /\ \A k \in 1..Len(out) : out[k] = frames[1].min + k - 1
  /\ outDone >= 1 => Len(out) = RangeCount

\* C21 witness: range(1, 3) drained
C21_Witness ==
  /\ frames[1].min = 1 /\ frames[1].max = 3
  /\ out = <<1, 2, 3>>
  /\ outDone = 1

(***************************************************************************)
(* SpecFromArray: a consumer holds g = fromArray(array) and calls          *)
(* g.next().  frames[1] is g: the array it was given, the index of the     *)
(* array iterator of its for-of, and its pc.                               *)
(***************************************************************************)
InitFromArray ==
  /\ \E array \in Arrays :
       frames = <<[pc |-> "for", array |-> array, index |-> 0]>>
  /\ iterables = <<>>
  /\ gens = <<>>
  /\ pulls = <<>>
  /\ copies = <<>>
  /\ depth = 0
  /\ out = <<>>
  /\ outDone = 0
  /\ active = 0
  /\ index = 0
  /\ got = <<>>
  /\ dones = <<>>
  /\ calls = <<>>
  /\ raised = <<>>

\* a changed arrayIteratorNext: the array is read from its last index down
arrayIteratorNextReversed(array, i) ==
  IF i < Len(array)
  THEN [done |-> FALSE, value |-> array[Len(array) - i]]
  ELSE [done |-> TRUE, value |-> Undefined]

\* next() of the array iterator that `for (const value of array)` reads,
\* standing at index i (0-based; array[i + 1] is the source's array[i])
arrayIteratorNext(array, i) ==
  IF i < Len(array)
  THEN [done |-> FALSE, value |-> array[i + 1]]
  ELSE [done |-> TRUE, value |-> Undefined]

\* for (const value of array) yield value: one iteration, or the return
FromArrayIteration ==
  /\ depth = 1
  /\ frames[1].pc = "for"
  /\ LET iteration == arrayIteratorNext(frames[1].array, frames[1].index) IN
       IF iteration.done
       THEN /\ frames' = [frames EXCEPT ![1].pc = "done"]
            /\ outDone' = outDone + 1
            /\ out' = out
       ELSE /\ frames' = [frames EXCEPT ![1].index = @ + 1]
            /\ out' = Append(out, iteration.value)
            /\ outDone' = outDone
  /\ depth' = 0
  /\ UNCHANGED <<iterables, gens, pulls, copies, copyVars>>

FromArrayRun == GeneratorFinished \/ FromArrayIteration

NextFromArray == GeneratorNextCall \/ FromArrayRun

SpecFromArray == InitFromArray /\ [][NextFromArray]_vars /\ WF_vars(FromArrayRun)

\* C22: fromArray(items) yields items[0], items[1], ... in index order and
\* then signals done, the empty array included (done at the first pull),
\* and no pull changes the array.
C22_FromArrayYieldsItems ==
  /\ [](/\ Len(out) <= Len(frames[1].array)
        /\ out = SubSeq(frames[1].array, 1, Len(out))
        /\ outDone >= 1 => out = frames[1].array)
  /\ [][frames'[1].array = frames[1].array]_vars

\* C22 witness: fromArray([1, 0]) pulled to its end
C22_Witness ==
  /\ frames[1].array = <<1, 0>>
  /\ out = <<1, 0>>
  /\ outDone = 1

(***************************************************************************)
(* SpecForEach: a caller holds two fresh generators of the same finite     *)
(* sequence and calls forEach(iterables[1], callback) and                  *)
(* toArray(iterables[2]), each once, in either order.  frames[1] is the    *)
(* call of forEach, frames[2] the call of toArray; depth tells which of    *)
(* them runs.  calls is the list of the arguments callback has received,   *)
(* out the array toArray returned.                                         *)
(***************************************************************************)
InitForEach ==
  /\ \E g \in TakeInputs \ {naturalNumbers} : iterables = <<g, g>>
  /\ gens = <<NewGen, NewGen>>
  /\ pulls = <<0, 0>>
  /\ frames = <<[pc |-> "idle", value |-> Undefined, result |-> <<>>],
                [pc |-> "idle", value |-> Undefined, result |-> <<>>]>>
  /\ copies = <<>>
  /\ depth = 0
  /\ out = <<>>
  /\ outDone = 0
  /\ active = 0
  /\ index = 0
  /\ got = <<>>
  /\ dones = <<>>
  /\ calls = <<>>
  /\ raised = <<>>

\* the caller calls forEach(iterable, callback)
ForEachCall ==
  /\ depth = 0
  /\ frames[1].pc = "idle"
  /\ depth' = 1
  /\ frames' = [frames EXCEPT ![1].pc = "for"]
  /\ UNCHANGED <<iterables, gens, pulls, copies, out, outDone, copyVars>>

\* a changed forOfEnds: a done result that carries a value is an element
forOfEndsOnUndefined(iteration) ==
  iteration.done /\ iteration.value = Undefined

\* whether a for-of (and Array.from) stops at this iteration result
forOfEnds(iteration) == iteration.done

\* for (const value of iterable): the next value is pulled, or forEach
\* returns
ForEachPull ==
  /\ depth = 1
  /\ frames[1].pc = "for"
  /\ LET it == GenNext(iterables[1], gens[1]) IN
       /\ gens' = [gens EXCEPT ![1] = it.state]
       /\ pulls' = [pulls EXCEPT ![1] = countPull(@)]
       /\ IF forOfEnds(it.result)
          THEN /\ frames' = [frames EXCEPT ![1].pc = "returned"]
               /\ depth' = 0
          ELSE /\ frames' = [frames EXCEPT ![1].pc = "callback",
                                           ![1].value = it.result.value]
               /\ depth' = depth
  /\ UNCHANGED <<iterables, copies, out, outDone, copyVars>>

\* callback(value)
ForEachCallback ==
  /\ depth = 1
  /\ frames[1].pc = "callback"
  /\ calls' = recordCall(calls, frames[1].value)
  /\ frames' = [frames EXCEPT ![1].pc = "for"]
  /\ UNCHANGED <<iterables, gens, pulls, copies, depth, out, outDone,
                 active, index, got, dones, raised>>

\* the caller calls toArray(iterable)
ToArrayCall ==
  /\ depth = 0
  /\ frames[2].pc = "idle"
  /\ depth' = 2
  /\ frames' = [frames EXCEPT ![2].pc = "for"]
  /\ UNCHANGED <<iterables, gens, pulls, copies, out, outDone, copyVars>>

\* Array.from(iterable): the next value is pulled and appended, or the
\* array is returned
ToArrayPull ==
  /\ depth = 2
  /\ frames[2].pc = "for"
  /\ LET it == GenNext(iterables[2], gens[2]) IN
       /\ gens' = [gens EXCEPT ![2] = it.state]
       /\ pulls' = [pulls EXCEPT ![2] = countPull(@)]
       /\ IF forOfEnds(it.result)
          THEN /\ frames' = [frames EXCEPT ![2].pc = "returned"]
               /\ out' = frames[2].result
               /\ depth' = 0
          ELSE /\ frames' = [frames EXCEPT
                               ![2].result = Append(@, it.result.value)]
               /\ UNCHANGED <<out, depth>>
  /\ UNCHANGED <<iterables, copies, outDone, copyVars>>

ForEachRun == ForEachPull \/ ForEachCallback \/ ToArrayPull

NextForEach == ForEachCall \/ ToArrayCall \/ ForEachRun

SpecForEach == InitForEach /\ [][NextForEach]_vars /\ WF_vars(ForEachRun)

\* C23: forEach calls the callback once per element of a finite sequence,
\* in order; the callback for element k has run before element k + 1 is
\* pulled; the done signal causes no call; and toArray returns the list of
\* the values forEach delivers.
C23_ForEachThenToArray ==
  /\ calls = SubSeq(iterables[1].items, 1, Len(calls))
  /\ Len(calls) <= Len(iterables[1].items)
  /\ frames[1].pc = "returned" => calls = iterables[1].items
  /\ frames[1].pc = "callback" => pulls[1] = Len(calls) + 1
  /\ frames[1].pc = "for" => pulls[1] = Len(calls)
  /\ frames[2].pc = "returned" => out = iterables[1].items
  /\ frames[1].pc = "returned" /\ frames[2].pc = "returned" => out = calls

\* C23 witness: both calls have returned on a sequence of two elements that
\* ends with a done value
C23_Witness ==
  /\ iterables[1].items = <<1, 0>>
  /\ iterables[1].ret = 2
  /\ frames[1].pc = "returned"
  /\ frames[2].pc = "returned"
  /\ calls = <<1, 0>>
  /\ out = <<1, 0>>

(***************************************************************************)
(* SpecLibFilterMap: the next()-based filterMap of lib/index.js.  A        *)
(* consumer holds o = filterMap(generator, transform) and calls o.next().  *)
(* The object keeps no state of its own: every next() calls                *)
(* generator.next() again.                                                 *)
(***************************************************************************)
InitLibFilterMap == \E t \in Transforms : InitPipe(t)

\* next() after generator.next() returned a value: skipped is set by the
\* transform's skip() call; `if (skipped) return next()` yields nothing,
\* otherwise the iteration is returned with the transform's return value.
\* The values this returns to the caller.
libFilterMapBody(t, value) ==
  IF transform(t, value).skipped
  THEN <<>>
  ELSE <<transform(t, value).mappedValue>>

\* next(): generator.next() is called; its done result is returned as it
\* is; a skipped value makes next() call itself; any other is returned
LibFilterMapNext ==
  /\ depth = 1
  /\ LET iteration == GenNext(iterables[1], gens[1]) IN
       /\ gens' = [gens EXCEPT ![1] = iteration.state]
       /\ pulls' = [pulls EXCEPT ![1] = countPull(@)]
       /\ IF iteration.result.done
          THEN /\ depth' = 0
               /\ outDone' = outDone + 1
               /\ UNCHANGED <<out, calls>>
          ELSE /\ calls' = recordCall(calls, iteration.result.value)
               /\ IF libFilterMapBody(frames[1].fn, iteration.result.value) # <<>>
                  THEN /\ out' = Append(out,
                                   libFilterMapBody(frames[1].fn,
                                                    iteration.result.value)[1])
                       /\ depth' = 0
                  ELSE UNCHANGED <<out, depth>>
               /\ outDone' = outDone
  /\ UNCHANGED <<iterables, copies, frames, active, index, got, dones, raised>>

NextLibFilterMap == GeneratorNextCall \/ LibFilterMapNext

SpecLibFilterMap ==
  InitLibFilterMap /\ [][NextLibFilterMap]_vars /\ WF_vars(LibFilterMapNext)

\* C30: in the next()-based filterMap, a transform that returns undefined
\* without calling skip counts as a skip: no element with the value
\* undefined is ever returned, the next underlying value is tried instead,
\* so the values returned are those of filterMap's contract.
C30_LibFilterMapSkipsUndefined ==
  Unsaturated =>
    /\ \A k \in 1..Len(out) : out[k] # Undefined
    /\ out = FilterMapOf(frames[1].fn, calls)

(***************************************************************************)
(* SpecThrow: filter, filterMap, map and forEach with a caller's function  *)
(* that raises an error at its raisesAt-th call (never for 0).  For the    *)
(* three generator functions a consumer holds the generator and calls      *)
(* next(); forEach is called once, and outDone counts its normal return.   *)
(* frames[1].pc is "for" in the for-of, "done" after a return, "threw"     *)
(* once an error has left the function.                                    *)
(***************************************************************************)
ThrowNames == {"filter", "filterMap", "map", "forEach"}

\* the caller's functions for the function of that name; forEach's callback
\* returns nothing
Functions(name) ==
  CASE name = "filter" -> Predicates
    [] name = "filterMap" -> Transforms
    [] name = "map" -> Transformers
    [] name = "forEach" -> {Undefined}

InitThrow ==
  /\ \E name \in ThrowNames :
       \E fn \in Functions(name), k \in 0..(MaxLen + 1) :
         frames = <<[pc |-> "for", name |-> name, fn |-> fn, raisesAt |-> k]>>
  /\ iterables \in {<<g>> : g \in CopyInputs}
  /\ gens = <<NewGen>>
  /\ pulls = <<0>>
  /\ copies = <<>>
  /\ depth = 0
  /\ out = <<>>
  /\ outDone = 0
  /\ active = 0
  /\ index = 0
  /\ got = <<>>
  /\ dones = <<>>
  /\ calls = <<>>
  /\ raised = <<>>

\* whether the call of the caller's function that follows the calls in log
\* raises
callbackRaises(frame, log) == Len(log) + 1 = frame.raisesAt

\* the body of the for-of of the function of that name; forEach's body,
\* callback(value), yields nothing
loopBody(name, fn, value) ==
  IF name = "forEach" THEN <<>> ELSE forOfBody(name, fn, value)

\* a changed forOfOutcome: an error of the caller's function is caught and
\* the loop goes on
forOfOutcomeCaught(frame, log, value) ==
  IF callbackRaises(frame, log) THEN "continue"
  ELSE IF loopBody(frame.name, frame.fn, value) # <<>> THEN "yield"
  ELSE "continue"

\* How one iteration of the for-of ends.  None of the four functions has a
\* try statement: an error raised by the caller's function leaves the
\* function; otherwise the body yields or the loop goes round.
forOfOutcome(frame, log, value) ==
  IF callbackRaises(frame, log) THEN "raise"
  ELSE IF loopBody(frame.name, frame.fn, value) # <<>> THEN "yield"
  ELSE "continue"

\* the consumer calls g.next(), or forEach(iterable, callback) once
ThrowCall ==
  /\ depth = 0
  /\ Len(out) + outDone + Len(raised) < MaxNext
  /\ frames[1].name = "forEach" => frames[1].pc = "for"
  /\ depth' = 1
  /\ UNCHANGED <<iterables, gens, pulls, copies, frames, out, outDone, copyVars>>

\* next() on a generator that has returned or was left by an error
ThrowFinished ==
  /\ depth = 1
  /\ frames[1].pc \in {"done", "threw"}
  /\ depth' = 0
  /\ outDone' = outDone + 1
  /\ UNCHANGED <<iterables, gens, pulls, copies, frames, out, copyVars>>

\* One iteration of the for-of.  An error that leaves the body closes the
\* iterable's iterator (the for-of calls its return()), finishes the
\* generator and reaches the caller of next() or of forEach.
ThrowIteration ==
  /\ depth = 1
  /\ frames[1].pc = "for"
  /\ LET it == GenNext(iterables[1], gens[1])
         outcome == forOfOutcome(frames[1], calls, it.result.value) IN
       /\ pulls' = [pulls EXCEPT ![1] = countPull(@)]
       /\ IF it.result.done
          THEN /\ gens' = [gens EXCEPT ![1] = it.state]
               /\ frames' = [frames EXCEPT ![1].pc = "done"]
               /\ depth' = 0
               /\ outDone' = outDone + 1
               /\ UNCHANGED <<out, calls, raised>>
          ELSE /\ calls' = recordCall(calls, it.result.value)
               /\ outDone' = outDone
               /\ CASE outcome = "raise" ->
                         /\ gens' = [gens EXCEPT ![1] = GenReturn(it.state)]
                         /\ frames' = [frames EXCEPT ![1].pc = "threw"]
                         /\ raised' = Append(raised, it.result.value)
                         /\ depth' = 0
                         /\ out' = out
                    [] outcome = "yield" ->
                         /\ gens' = [gens EXCEPT ![1] = it.state]
                         /\ out' = Append(out, loopBody(frames[1].name,
                                                        frames[1].fn,
                                                        it.result.value)[1])
                         /\ depth' = 0
                         /\ UNCHANGED <<frames, raised>>
                    [] outcome = "continue" ->
                         /\ gens' = [gens EXCEPT ![1] = it.state]
                         /\ UNCHANGED <<frames, raised, depth, out>>
  /\ UNCHANGED <<iterables, copies, active, index, got, dones>>

ThrowRun == ThrowFinished \/ ThrowIteration

NextThrow == ThrowCall \/ ThrowRun

SpecThrow == InitThrow /\ [][NextThrow]_vars /\ WF_vars(ThrowRun)

\* the calls of the caller's function that returned
ReturnedCalls ==
  IF raised = <<>> THEN calls ELSE SubSeq(calls, 1, Len(calls) - 1)

\* what the function of that name yields for the elements s when the
\* caller's function raises nothing
RECURSIVE YieldsOf(_, _, _)
YieldsOf(name, fn, s) ==
  IF s = <<>> THEN <<>>
  ELSE loopBody(name, fn, Head(s)) \o YieldsOf(name, fn, Tail(s))

\* C26: when the caller's function raises while handling element k, the
\* pull (or the forEach call) that made the call ends with that error,
\* returning neither a value nor done; the error is raised for element k
\* and no other; the function is not called again; and the values
\* delivered are those of the elements before k, as without the error.
C26_CallbackErrorsPropagate ==
  /\ [](Unsaturated =>
          /\ CalledOncePerElement
          /\ (raised # <<>>) <=>
               (frames[1].raisesAt >= 1 /\ Len(calls) >= frames[1].raisesAt)
          /\ raised # <<>> =>
               /\ Len(calls) = frames[1].raisesAt
               /\ raised = <<calls[frames[1].raisesAt]>>
               /\ frames[1].pc = "threw"
          /\ out = YieldsOf(frames[1].name, frames[1].fn, ReturnedCalls))
  /\ [][raised' # raised =>
          /\ depth = 1 /\ depth' = 0
          /\ out' = out
          /\ outDone' = outDone]_vars

\* C26 witness: map over the natural numbers whose transformer raised at
\* its third call: two values delivered, the error, then done
C26_Witness ==
  /\ frames[1].name = "map"
  /\ frames[1].fn = [scale |-> 2, shift |-> 1]
  /\ frames[1].raisesAt = 3
  /\ ~IsFinite(iterables[1])
  /\ out = <<1, 3>>
  /\ raised = <<2>>
  /\ outDone = 1
  /\ depth = 0

(***************************************************************************)
(* SpecPipeline: a consumer builds a pipeline, one call after the other,   *)
(* and drains it as toArray and forEach do, by next() calls up to the      *)
(* first done; it may then call next() a few more times.                   *)
(*                                                                         *)
(* iterables[i] is the i-th object of the pipeline: an input generator     *)
(* (range, fromArray), or the result of calling one of the functions on    *)
(* the objects args, which come before it; the last one is the root the    *)
(* consumer drains.  No object is an argument twice.  frames[i] holds      *)
(* where object i stands (pc), who called its next() (caller, 0 for the    *)
(* consumer), the iteration result its callee handed back (res) and its    *)
(* locals; copies[i] is the closure of a copy.  depth is the object whose  *)
(* code runs.                                                              *)
(*   "unbuilt"    the call that creates the object has not been made       *)
(*   "start"      a generator before its first next()                      *)
(*   "for", "head", "tail", "delegate"                                     *)
(*                a generator suspended at a yield in that loop            *)
(*   "got", "gotOuter", "gotHead", "gotTail", "taken"                      *)
(*                the callee's next() has returned                         *)
(*   "next", "loop"                                                        *)
(*                a copy between next() calls, and in its while loop       *)
(*   "done"       the generator has returned                               *)
(***************************************************************************)
\* an input generator as an object of a pipeline
Source(g) ==
  [kind |-> g.kind, items |-> g.items, ret |-> g.ret,
   args |-> <<>>, fn |-> Undefined, internal |-> FALSE]

\* the object returned by the function of that name called by the consumer
Combinator(kind, args, fn) ==
  [kind |-> kind, items |-> <<>>, ret |-> Undefined,
   args |-> args, fn |-> fn, internal |-> FALSE]

\* an object that combine creates itself, at its first next():
\* combine(iterables.slice(1)) and its copy
Internal(kind, args) ==
  [Combinator(kind, args, Undefined) EXCEPT !.internal = TRUE]

\* the finite inputs, as in the tests: range(0, ...), range(3, ...)
FiniteInputs(i) == CombineInputs(i) \ {naturalNumbers}

\* more values than a pipeline of the model over inputs of at most MaxLen
\* elements can denote
DrainBound == MaxLen * MaxLen + 2 * MaxLen

Root == Len(iterables)

IsSource(i) == iterables[i].kind \in {"array", "naturals"}

\* map, filter, filterMap and combine's case 1: one for-of over one iterable
IsForOf(i) ==
  \/ iterables[i].kind \in {"map", "filter", "filterMap"}
  \/ iterables[i].kind = "combine" /\ Len(iterables[i].args) = 1

PipeFrame ==
  [pc |-> "unbuilt", caller |-> 0, res |-> DoneResult, j |-> 1,
   head |-> Undefined, yielded |-> 0, index |-> 0]

InitPipeline ==
  /\ \E a \in FiniteInputs(1), b \in FiniteInputs(2) :
       \/ iterables = <<Source(a)>>
       \/ \E t \in Transformers :
            iterables = <<Source(a), Combinator("map", <<1>>, t)>>
       \/ \E p \in Predicates :
            iterables = <<Source(a), Combinator("filter", <<1>>, p)>>
       \/ \E t \in Transforms :
            iterables = <<Source(a), Combinator("filterMap", <<1>>, t)>>
       \/ iterables = <<Source(a), Source(b),
                        Combinator("concat", <<1, 2>>, Undefined)>>
       \/ iterables = <<Source(a), Source(b), Source(fromArray(<<1, 2>>)),
                        Combinator("flatten", <<3>>, Undefined)>>
       \/ iterables = <<Combinator("combine", <<>>, Undefined)>>
       \/ iterables = <<Source(a), Combinator("combine", <<1>>, Undefined)>>
       \/ iterables = <<Source(a), Source(b),
                        Internal("combine", <<2>>), Internal("copy", <<3>>),
                        Combinator("combine", <<1, 4>>, Undefined)>>
       \/ iterables = <<Source(a), Combinator("copy", <<1>>, Undefined)>>
       \/ iterables = <<Source(a), Combinator("copy", <<1>>, Undefined),
                        Combinator("copy", <<2>>, Undefined)>>
       \/ \E p \in Predicates, t \in Transformers :
            iterables = <<Source(a), Combinator("copy", <<1>>, Undefined),
                          Combinator("filter", <<2>>, p), Source(b),
                          Combinator("concat", <<3, 4>>, Undefined),
                          Combinator("map", <<5>>, t)>>
  /\ gens = [i \in 1..Len(iterables) |-> NewGen]
  /\ pulls = [i \in 1..Len(iterables) |-> 0]
  /\ copies = [i \in 1..Len(iterables) |-> NewCopy]
  /\ frames = [i \in 1..Len(iterables) |-> PipeFrame]
  /\ depth = 0
  /\ out = <<>>
  /\ outDone = 0
  /\ active = 0
  /\ index = 0
  /\ got = <<>>
  /\ dones = <<>>
  /\ calls = <<>>
  /\ raised = <<>>

Built(i) == frames[i].pc # "unbuilt"

\* iterable[Symbol.iterator](), by a for-of, a yield*, Array.from or take:
\* a generator returns itself, a copy starts a new iteration at index 0.
\* cs is copies, the result copies after the call.
PipeIterate(cs, child) ==
  IF iterables[child].kind = "copy"
  THEN [cs EXCEPT ![child] = copyIterator(dropIterators(@))]
  ELSE cs

\* The running object calls next() on child; fr is frames after the running
\* object's own step.
PipeCall(fr, child) ==
  /\ frames' = [fr EXCEPT ![child].caller = depth]
  /\ depth' = child
  /\ UNCHANGED <<out, outDone>>

\* Object i hands the iteration result r to the caller of its next(); fr is
\* frames after i's own step.
PipeReturn(i, r, fr) ==
  IF frames[i].caller = 0
  THEN /\ frames' = fr
       /\ depth' = 0
       /\ IF r.done
          THEN outDone' = outDone + 1 /\ out' = out
          ELSE out' = Append(out, r.value) /\ outDone' = outDone
  ELSE /\ frames' = [fr EXCEPT ![frames[i].caller].res = r]
       /\ depth' = frames[i].caller
       /\ UNCHANGED <<out, outDone>>

\* a changed PipeConstruct: the first value of an input given as first
\* argument is fetched when the object is created
PipeConstructEager(i) ==
  /\ depth = 0
  /\ ~Built(i)
  /\ ~iterables[i].internal
  /\ \A k \in 1..(i - 1) : iterables[k].internal \/ Built(k)
  /\ frames' = [frames EXCEPT
                  ![i].pc = IF iterables[i].kind = "copy" THEN "next" ELSE "start"]
  /\ copies' = [copies EXCEPT ![i] = NewCopy]
  /\ IF iterables[i].args # <<>> /\ IsSource(iterables[i].args[1])
     THEN LET child == iterables[i].args[1] IN
            /\ gens' = [gens EXCEPT
                          ![child] = GenNext(iterables[child], gens[child]).state]
            /\ pulls' = [pulls EXCEPT ![child] = countPull(@)]
     ELSE UNCHANGED <<gens, pulls>>
  /\ UNCHANGED <<iterables, depth, out, outDone, copyVars>>

\* The consumer makes its next call: range(...), fromArray(...), or one of
\* the functions on objects it has made.  A generator function returns a
\* generator that has not started; copy returns an object around a new
\* closure (values = [], indexes = [], done = false, maxIndex = Infinity).
PipeConstruct(i) ==
  /\ depth = 0
  /\ ~Built(i)
  /\ ~iterables[i].internal
  /\ \A k \in 1..(i - 1) : iterables[k].internal \/ Built(k)
  /\ frames' = [frames EXCEPT
                  ![i].pc = IF iterables[i].kind = "copy" THEN "next" ELSE "start"]
  /\ copies' = [copies EXCEPT ![i] = NewCopy]
  /\ UNCHANGED <<iterables, gens, pulls, depth, out, outDone, copyVars>>

\* The consumer drains the root: Array.from and for-of get its iterator
\* and call next() until done.  After done the consumer may call next()
\* again, MaxAfter times.
PipeNextCall ==
  /\ depth = 0
  /\ Built(Root)
  /\ IF outDone = 0 THEN Len(out) <= DrainBound ELSE outDone <= MaxAfter
  /\ copies' = IF Len(out) + outDone = 0
               THEN PipeIterate(copies, Root)
               ELSE copies
  /\ depth' = Root
  /\ UNCHANGED <<iterables, gens, pulls, frames, out, outDone, copyVars>>

\* a changed PipeFinished: a generator that has returned runs again from
\* its start
PipeFinishedRestarts(i) ==
  /\ depth = i
  /\ frames[i].pc = "done"
  /\ frames' = [frames EXCEPT ![i].pc = "start", ![i].j = 1]
  /\ UNCHANGED <<iterables, gens, pulls, copies, depth, out, outDone,
                 active, index, got, dones, calls, raised>>

\* next() on a generator that has returned
PipeFinished(i) ==
  /\ depth = i
  /\ frames[i].pc = "done"
  /\ PipeReturn(i, DoneResult, frames)
  /\ UNCHANGED <<iterables, gens, pulls, copies, copyVars>>

\* next() on an input generator
PipeSource(i) ==
  /\ depth = i
  /\ IsSource(i)
  /\ LET it == GenNext(iterables[i], gens[i]) IN
       /\ gens' = [gens EXCEPT ![i] = it.state]
       /\ pulls' = [pulls EXCEPT ![i] = countPull(@)]
       /\ PipeReturn(i, it.result, frames)
  /\ UNCHANGED <<iterables, copies, copyVars>>

\* what the body of the for-of yields: combine's case 1 yields [value]
pipeBody(node, value) ==
  IF node.kind = "combine"
  THEN <<yieldSingle(value)>>
  ELSE forOfBody(node.kind, node.fn, value)

\* for (const value of iterable): the next value is asked for
PipeForOfCall(i) ==
  /\ depth = i
  /\ IsForOf(i)
  /\ frames[i].pc \in {"start", "for"}
  /\ copies' = IF frames[i].pc = "start"
               THEN PipeIterate(copies, iterables[i].args[1])
               ELSE copies
  /\ PipeCall([frames EXCEPT ![i].pc = "got"], iterables[i].args[1])
  /\ UNCHANGED <<iterables, gens, pulls, copyVars>>

\* for (const value of iterable) { body }: the end of the iterable ends the
\* generator, a yield returns to the caller, no yield goes round the loop
PipeForOfGot(i) ==
  /\ depth = i
  /\ IsForOf(i)
  /\ frames[i].pc = "got"
  /\ LET r == frames[i].res IN
       IF r.done
       THEN /\ PipeReturn(i, DoneResult, [frames EXCEPT ![i].pc = "done"])
            /\ calls' = calls
       ELSE /\ calls' = IF iterables[i].kind = "combine"
                        THEN calls
                        ELSE recordCall(calls, r.value)
            /\ IF pipeBody(iterables[i], r.value) # <<>>
               THEN PipeReturn(i, [done |-> FALSE,
                                   value |-> pipeBody(iterables[i], r.value)[1]],
                               [frames EXCEPT ![i].pc = "for"])
               ELSE /\ frames' = [frames EXCEPT ![i].pc = "for"]
                    /\ UNCHANGED <<depth, out, outDone>>
  /\ UNCHANGED <<iterables, gens, pulls, copies, active, index, got, dones,
                 raised>>

\* concat: for (const iterable of iterables) yield* iterable.  The array
\* ends, or the next iterable is iterated and asked, or the current one is
\* asked again.
PipeConcatCall(i) ==
  /\ depth = i
  /\ iterables[i].kind = "concat"
  /\ frames[i].pc \in {"start", "for", "delegate"}
  /\ LET iteration == arrayIteratorNext(iterables[i].args, frames[i].j - 1) IN
       IF frames[i].pc = "delegate"
       THEN /\ PipeCall([frames EXCEPT ![i].pc = "got"], iteration.value)
            /\ copies' = copies
       ELSE IF iteration.done
       THEN /\ PipeReturn(i, DoneResult, [frames EXCEPT ![i].pc = "done"])
            /\ copies' = copies
       ELSE /\ copies' = PipeIterate(copies, iteration.value)
            /\ PipeCall([frames EXCEPT ![i].pc = "got"], iteration.value)
  /\ UNCHANGED <<iterables, gens, pulls, copyVars>>

\* yield* iterable: a value is yielded on, done moves to the next iterable
PipeConcatGot(i) ==
  /\ depth = i
  /\ iterables[i].kind = "concat"
  /\ frames[i].pc = "got"
  /\ LET r == frames[i].res IN
       IF r.done
       THEN /\ frames' = [frames EXCEPT ![i].pc = "for", ![i].j = @ + 1]
            /\ UNCHANGED <<depth, out, outDone>>
       ELSE PipeReturn(i, [done |-> FALSE, value |-> r.value],
                       [frames EXCEPT ![i].pc = "delegate"])
  /\ UNCHANGED <<iterables, gens, pulls, copies, copyVars>>

\* flatten: for (const yieldedIterable of iterable) yield* yieldedIterable.
\* The outer iterable is asked for the next iterable, or the current inner
\* one is asked again.
PipeFlattenCall(i) ==
  /\ depth = i
  /\ iterables[i].kind = "flatten"
  /\ frames[i].pc \in {"start", "for", "delegate"}
  /\ IF frames[i].pc = "delegate"
     THEN /\ PipeCall([frames EXCEPT ![i].pc = "got"], frames[i].yielded)
          /\ copies' = copies
     ELSE /\ copies' = IF frames[i].pc = "start"
                       THEN PipeIterate(copies, iterables[i].args[1])
                       ELSE copies
          /\ PipeCall([frames EXCEPT ![i].pc = "gotOuter"], iterables[i].args[1])
  /\ UNCHANGED <<iterables, gens, pulls, copyVars>>

\* the outer iterable has answered: its end ends flatten, an iterable is
\* iterated and asked
PipeFlattenGotOuter(i) ==
  /\ depth = i
  /\ iterables[i].kind = "flatten"
  /\ frames[i].pc = "gotOuter"
  /\ LET r == frames[i].res IN
       IF r.done
       THEN /\ PipeReturn(i, DoneResult, [frames EXCEPT ![i].pc = "done"])
            /\ copies' = copies
       ELSE /\ copies' = PipeIterate(copies, r.value)
            /\ PipeCall([frames EXCEPT ![i].pc = "got", ![i].yielded = r.value],
                        r.value)
  /\ UNCHANGED <<iterables, gens, pulls, copyVars>>

\* yield* yieldedIterable: a value is yielded on, done goes back to the
\* outer for-of
PipeFlattenGot(i) ==
  /\ depth = i
  /\ iterables[i].kind = "flatten"
  /\ frames[i].pc = "got"
  /\ LET r == frames[i].res IN
       IF r.done
       THEN /\ frames' = [frames EXCEPT ![i].pc = "for"]
            /\ UNCHANGED <<depth, out, outDone>>
       ELSE PipeReturn(i, [done |-> FALSE, value |-> r.value],
                       [frames EXCEPT ![i].pc = "delegate"])
  /\ UNCHANGED <<iterables, gens, pulls, copies, copyVars>>

\* combine, case 0: return
PipeCombineEmpty(i) ==
  /\ depth = i
  /\ iterables[i].kind = "combine"
  /\ Len(iterables[i].args) = 0
  /\ frames[i].pc = "start"
  /\ PipeReturn(i, DoneResult, [frames EXCEPT ![i].pc = "done"])
  /\ UNCHANGED <<iterables, gens, pulls, copies, copyVars>>

\* combine, default case.  At the first next():
\* const tails = copy(combine(iterables.slice(1))), which creates the two
\* internal objects, then the for-of over iterables[0] starts; later the
\* for-of over iterables[0] asks for the next head.
PipeCombineHeadCall(i) ==
  /\ depth = i
  /\ iterables[i].kind = "combine"
  /\ Len(iterables[i].args) = 2
  /\ frames[i].pc \in {"start", "head"}
  /\ LET heads == iterables[i].args[1]
         tails == iterables[i].args[2]
         rest == iterables[tails].args[1] IN
       IF frames[i].pc = "start"
       THEN /\ copies' = PipeIterate([copies EXCEPT ![tails] = NewCopy], heads)
            /\ PipeCall([frames EXCEPT ![i].pc = "gotHead",
                                       ![tails].pc = "next",
                                       ![rest].pc = "start"], heads)
       ELSE /\ copies' = copies
            /\ PipeCall([frames EXCEPT ![i].pc = "gotHead"], heads)
  /\ UNCHANGED <<iterables, gens, pulls, copyVars>>

\* for (const head of iterables[0]): the end ends combine; with a head,
\* for (const tail of tails) starts a new iteration of tails
PipeCombineGotHead(i) ==
  /\ depth = i
  /\ iterables[i].kind = "combine"
  /\ frames[i].pc = "gotHead"
  /\ LET r == frames[i].res
         tails == iterables[i].args[2] IN
       IF r.done
       THEN /\ PipeReturn(i, DoneResult, [frames EXCEPT ![i].pc = "done"])
            /\ copies' = copies
       ELSE /\ copies' = PipeIterate(copies, tails)
            /\ PipeCall([frames EXCEPT ![i].pc = "gotTail", ![i].head = r.value],
                        tails)
  /\ UNCHANGED <<iterables, gens, pulls, copyVars>>

\* for (const tail of tails): the next tail is asked for
PipeCombineTailCall(i) ==
  /\ depth = i
  /\ iterables[i].kind = "combine"
  /\ frames[i].pc = "tail"
  /\ PipeCall([frames EXCEPT ![i].pc = "gotTail"], iterables[i].args[2])
  /\ UNCHANGED <<iterables, gens, pulls, copies, copyVars>>

\* yield [head, ...tail], or the end of tails goes to the next head
PipeCombineGotTail(i) ==
  /\ depth = i
  /\ iterables[i].kind = "combine"
  /\ frames[i].pc = "gotTail"
  /\ LET r == frames[i].res IN
       IF r.done
       THEN /\ frames' = [frames EXCEPT ![i].pc = "head"]
            /\ UNCHANGED <<depth, out, outDone>>
       ELSE PipeReturn(i, [done |-> FALSE,
                           value |-> yieldTuple(frames[i].head, r.value)],
                       [frames EXCEPT ![i].pc = "tail"])
  /\ UNCHANGED <<iterables, gens, pulls, copies, copyVars>>

\* iterators[id].next() of a copy: getIteratorResultAtIndex(indexes[id]++)
\* is entered; id is the iteration started last
PipeCopyNext(i) ==
  /\ depth = i
  /\ iterables[i].kind = "copy"
  /\ frames[i].pc = "next"
  /\ LET id == Len(copies[i].indexes) IN
       /\ frames' = [frames EXCEPT ![i].pc = "loop",
                                   ![i].index = copies[i].indexes[id]]
       /\ copies' = [copies EXCEPT ![i].indexes[id] = @ + 1]
  /\ UNCHANGED <<iterables, gens, pulls, depth, out, outDone, copyVars>>

\* while (values.length <= index): with !done, take(iterable, 1) gets an
\* iterator of the iterable and calls its next(); with done the body does
\* nothing; after the loop the iterator result is returned
PipeCopyLoop(i) ==
  /\ depth = i
  /\ iterables[i].kind = "copy"
  /\ frames[i].pc = "loop"
  /\ IF loopCondition(copies[i], frames[i].index)
     THEN IF ~copies[i].done
          THEN /\ copies' = PipeIterate(copies, iterables[i].args[1])
               /\ PipeCall([frames EXCEPT ![i].pc = "taken"],
                           iterables[i].args[1])
          ELSE UNCHANGED <<copies, depth, frames, out, outDone>>
     ELSE /\ PipeReturn(i, iteratorResult(copies[i], frames[i].index),
                        [frames EXCEPT ![i].pc = "next"])
          /\ copies' = copies
  /\ UNCHANGED <<iterables, gens, pulls, copyVars>>

\* take(iterable, 1) has its iteration: the array it returns is cached
PipeCopyTaken(i) ==
  /\ depth = i
  /\ iterables[i].kind = "copy"
  /\ frames[i].pc = "taken"
  /\ copies' = [copies EXCEPT ![i] = cacheTaken(@, take1(frames[i].res))]
  /\ frames' = [frames EXCEPT ![i].pc = "loop"]
  /\ UNCHANGED <<iterables, gens, pulls, depth, out, outDone, copyVars>>

\* the longest pipeline of InitPipeline
MaxObjects == 6

PipeRun ==
  \/ \E i \in 1..MaxObjects : i <= Len(iterables) /\ PipeFinished(i)
  \/ \E i \in 1..MaxObjects : i <= Len(iterables) /\ PipeSource(i)
  \/ \E i \in 1..MaxObjects : i <= Len(iterables) /\ PipeForOfCall(i)
  \/ \E i \in 1..MaxObjects : i <= Len(iterables) /\ PipeForOfGot(i)
  \/ \E i \in 1..MaxObjects : i <= Len(iterables) /\ PipeConcatCall(i)
  \/ \E i \in 1..MaxObjects : i <= Len(iterables) /\ PipeConcatGot(i)
  \/ \E i \in 1..MaxObjects : i <= Len(iterables) /\ PipeFlattenCall(i)
  \/ \E i \in 1..MaxObjects : i <= Len(iterables) /\ PipeFlattenGotOuter(i)
  \/ \E i \in 1..MaxObjects : i <= Len(iterables) /\ PipeFlattenGot(i)
  \/ \E i \in 1..MaxObjects : i <= Len(iterables) /\ PipeCombineEmpty(i)
  \/ \E i \in 1..MaxObjects : i <= Len(iterables) /\ PipeCombineHeadCall(i)
  \/ \E i \in 1..MaxObjects : i <= Len(iterables) /\ PipeCombineGotHead(i)
  \/ \E i \in 1..MaxObjects : i <= Len(iterables) /\ PipeCombineTailCall(i)
  \/ \E i \in 1..MaxObjects : i <= Len(iterables) /\ PipeCombineGotTail(i)
  \/ \E i \in 1..MaxObjects : i <= Len(iterables) /\ PipeCopyNext(i)
  \/ \E i \in 1..MaxObjects : i <= Len(iterables) /\ PipeCopyLoop(i)
  \/ \E i \in 1..MaxObjects : i <= Len(iterables) /\ PipeCopyTaken(i)

NextPipeline ==
  \/ \E i \in 1..MaxObjects : i <= Len(iterables) /\ PipeConstruct(i)
  \/ PipeNextCall
  \/ PipeRun

SpecPipeline == InitPipeline /\ [][NextPipeline]_vars /\ WF_vars(PipeRun)

(***************************************************************************)
(* Properties of pipelines.                                                *)
(***************************************************************************)
\* the root is a generator: any of the functions but copy made it
GeneratorRoot == iterables[Root].kind # "copy"

C25_DrainTerminates ==
  /\ Len(out) <= DrainBound
  /\ (outDone = 0 \/ (outDone = 1 /\ depth = 0)) =>
       \A i \in 1..Len(iterables) :
         IsSource(i) => pulls[i] <= Len(iterables[i].items) + 1

InitLibCombine ==
  /\ \E left \in Arrays, right \in Arrays :
       /\ iterables = <<fromArray(left), fromArray(right)>>
       /\ gens = <<NewGen, [pos |-> Len(right), closed |-> TRUE]>>
       /\ pulls = <<0, Len(right) + 1>>
       /\ frames = <<[allRight |-> right, rightOffset |-> 0,
                      leftIteration |-> <<>>]>>
  /\ copies = <<>>
  /\ depth = 0
  /\ out = <<>>
  /\ outDone = 0
  /\ active = 0
  /\ index = 0
  /\ got = <<>>
  /\ dones = <<>>
  /\ calls = <<>>
  /\ raised = <<>>

\* allRight[rightOffset]: undefined beyond the end of the array
elementOrUndefined(array, offset) ==
  IF offset < Len(array) THEN array[offset + 1] ELSE Undefined

\* if (nextRight): undefined and 0 are falsy
truthy(value) == value # Undefined /\ value # 0

\* One pass through the body of next(); `return next()` is the next pass.
LibCombineNext ==
  /\ depth = 1
  /\ LET f == frames[1]
         pulled == GenNext(iterables[1], gens[1])
         leftIteration == IF f.leftIteration = <<>>
                          THEN pulled.result
                          ELSE f.leftIteration[1]
         nextRight == elementOrUndefined(f.allRight, f.rightOffset) IN
       /\ IF f.leftIteration = <<>>
          THEN /\ gens' = [gens EXCEPT ![1] = pulled.state]
               /\ pulls' = [pulls EXCEPT ![1] = countPull(@)]
          ELSE UNCHANGED <<gens, pulls>>
       /\ IF leftIteration.done
          THEN /\ frames' = [frames EXCEPT ![1].leftIteration = <<leftIteration>>]
               /\ outDone' = outDone + 1
               /\ depth' = 0
               /\ out' = out
          ELSE IF truthy(nextRight)
          THEN /\ frames' = [frames EXCEPT
                               ![1].leftIteration = <<leftIteration>>,
                               ![1].rightOffset = @ + 1]
               /\ out' = Append(out, <<leftIteration.value, nextRight>>)
               /\ depth' = 0
               /\ outDone' = outDone
          ELSE /\ frames' = [frames EXCEPT ![1].leftIteration = <<>>,
                                           ![1].rightOffset = 0]
               /\ UNCHANGED <<depth, out, outDone>>
  /\ UNCHANGED <<iterables, copies, copyVars>>

NextLibCombine == GeneratorNextCall \/ LibCombineNext

SpecLibCombine ==
  InitLibCombine /\ [][NextLibCombine]_vars /\ WF_vars(LibCombineNext)

\* the pairs of l and r in odometer order, the right-hand index fastest
CrossProduct(l, r) ==
  [k \in 1..(Len(l) * Len(r)) |->
     <<l[((k - 1) \div Len(r)) + 1], r[((k - 1) % Len(r)) + 1]>>]

\* C31: the next()-based combine of two finite sequences yields their full
\* cross-product in odometer order whatever the right-hand values are,
\* falsy ones such as 0 included: what was returned is always a prefix of
\* it, and all of it once done was returned.
C31_LibCombineCrossProduct ==
  LET all == CrossProduct(iterables[1].items, iterables[2].items) IN
    /\ Len(out) <= Len(all)
    /\ out = SubSeq(all, 1, Len(out))
    /\ outDone >= 1 => out = all

====
